---------------------------- MODULE Spec2Model ----------------------------
(***************************************************************************)
(* Dual-store ingestion and hybrid ranking of the fitness_tracker backend  *)
(* (backend/app/services).  The vector index (Qdrant) and the relationship *)
(* graph (Neo4j) are modelled by their contents; every awaited store or    *)
(* provider call of a service method is one step whose outcome (success or *)
(* an exception inside the client) is chosen by the environment.  A failed *)
(* store call leaves the store as it was.  Scores and weights are scaled   *)
(* by 10 (weight 1.0 is 10), fused scores by 100.                          *)
(***************************************************************************)
EXTENDS Integers, Sequences, FiniteSets, Bags, TLC

VARIABLES
    vector,     \* ids of the points held by the vector index
    nodes,      \* id -> number of :Recommendation nodes carrying that id
    edges,      \* bag of RELATES_TO edges [src, tgt, type, weight]
    pc,         \* "idle", the step the call in flight is at, or "returned"
    call,       \* [op, id]: the service method in flight
    todo,       \* relationships still to be created by the call
    pending,    \* ingest_many: items not yet visited by the graph loop
    batch,      \* ingest_many: ids of the submitted items, in input order
    embedded,   \* ingest_many: number of texts whose chunk was embedded
    rejected,   \* ingest_many: positions whose point the index rejected
    nodeFailed, \* ingest_many: positions whose node creation failed
    hist,       \* the external calls issued by the call, in order, with outcome
    ret,        \* value returned by the call
    pre,        \* the stores as they were when the call started
    fin,        \* hybrid ranking: inputs of _combine_rankings
    payload,    \* id -> the fields followed in the payload of its point
    props       \* id -> the properties followed of its graph node

vars == <<vector, nodes, edges, pc, call, todo, pending, batch, embedded,
          rejected, nodeFailed, hist, ret, pre, fin, payload, props>>

-----------------------------------------------------------------------------
(* Bounds of the model *)

\* largest number of nodes with one id that the graph is allowed to hold
MaxNodes == 2
\* largest number of edges that the graph is allowed to hold
MaxEdges == 1
\* longest list of items given to ingest_recommendations
MaxBatch == 3
\* embedding chunk size: generate_batch_embeddings' default batch_size (100)
\* scaled down so that a batch of MaxBatch items spans more than one chunk
BatchSize == 2

Ids == {"r1", "r2"}
None == "None"
NoWeight == -1

\* a relationship as supplied by the caller; weight may be missing
Rels == [target_id : Ids, type : {"similar"}, weight : {NoWeight, 5}]
Unweighted == {r \in Rels : r.weight = NoWeight}
\* the relationship lists given to ingest and update
RelLists == {<<>>} \cup {<<r>> : r \in Rels} \cup {<<r, s>> : r, s \in Unweighted}
\* the batches given to ingest_many: every list of 1..MaxBatch ids, the
\* first item with or without a "relationships" entry
BatchRel == [target_id |-> "r1", type |-> "similar", weight |-> NoWeight]
Batch(ids, withRel) ==
    [i \in DOMAIN ids |->
        [id |-> ids[i],
         relationships |-> IF i \in withRel THEN <<BatchRel>> ELSE <<>>]]
Batches ==
    UNION {{Batch(ids, w) : ids \in [1..n -> Ids], w \in {{}, {1}}} : n \in 1..MaxBatch}
\* the fields an update may name besides "relationships"
UpdateKeys == {"title", "content", "category"}

Min(a, b) == IF a <= b THEN a ELSE b

-----------------------------------------------------------------------------
(* The stores: what a successful client call does to them *)

\* VectorStore.store_recommendation: client.upsert of one point
store_recommendation(v, id) == v \cup {id}

\* VectorStore.batch_store_recommendations: client.upsert of all the points
batch_store_recommendations(v, ids) == v \cup {ids[i] : i \in DOMAIN ids}

\* VectorStore.delete_recommendation: client.delete of the point id
vector_delete_recommendation(v, id) == v \ {id}

\* VectorStore.update_metadata: client.set_payload patches the payload of an
\* existing point and creates none
update_metadata(v, id) == v

\* GraphStore.create_recommendation_node: an unconditional CREATE
create_recommendation_node(n, id) == [n EXCEPT ![id] = @ + 1]

\* number of edges one create_relationship query adds: one per matched
\* (source, target) pair of nodes, none when either id has no node
Matched_any(n, s, t) == 1
Matched(n, s, t) == n[s] * n[t]

\* GraphStore.create_relationship: MATCH source, MATCH target, CREATE edge
create_relationship(e, n, s, t, type, w) ==
    IF Matched(n, s, t) = 0 THEN e
    ELSE e (+) ([src |-> s, tgt |-> t, type |-> type, weight |-> w] :> Matched(n, s, t))

\* GraphStore.delete_recommendation: DETACH DELETE of every node with the id
graph_delete_nodes(n, id) == [n EXCEPT ![id] = 0]
graph_delete_edges_outbound(e, id) ==
    LET keep == {x \in DOMAIN e : x.src # id}
    IN  [x \in keep |-> e[x]]
graph_delete_edges(e, id) ==
    LET keep == {x \in DOMAIN e : x.src # id /\ x.tgt # id}
    IN  [x \in keep |-> e[x]]

\* rel.get("weight", 1.0)
RelWeight(rel) == IF rel.weight = NoWeight THEN 10 ELSE rel.weight

\* the environment lets a creation succeed only while the graph stays
\* within the bounds of the model; it may always make the call fail
NodeRoom(id) == nodes[id] < MaxNodes
EdgeRoom(s, t) == BagCardinality(edges) + Matched(nodes, s, t) <= MaxEdges

Idle == pc = "idle"

\* the outcome ev is in the log of the call
Did(ev) == \E i \in DOMAIN hist : hist[i] = ev
Log(ev) == hist' = Append(hist, ev)

\* the feedback fields of a point no feedback was written to
NoFeedback ==
    [last_feedback |-> None, implementation_count |-> 0, user_feedback |-> None]

\* the node properties where the specification does not follow them
NoProps == [title |-> None, category |-> None]

NoCall == [op |-> "none", id |-> None]
NoStores == [vector |-> {}, nodes |-> [i \in Ids |-> 0], edges |-> EmptyBag]

\* entry of a service method: nothing issued yet, the stores remembered
Enter(op, id) ==
    /\ Idle
    /\ call' = [op |-> op, id |-> id]
    /\ hist' = <<>>
    /\ pre' = [vector |-> vector, nodes |-> nodes, edges |-> edges]
    /\ embedded' = 0
    /\ rejected' = {}
    /\ nodeFailed' = {}
    /\ UNCHANGED <<vector, nodes, edges, fin, payload, props>>

\* the method returns value r to the route handler that awaits it
Return(r) == pc' = "returned" /\ ret' = r

Returned(op) == pc = "returned" /\ call.op = op

\* the route handler turns the result into the response; the call is over
respond ==
    /\ pc = "returned"
    /\ pc' = "idle"
    /\ call' = NoCall
    /\ hist' = <<>>
    /\ ret' = None
    /\ pre' = NoStores
    /\ todo' = <<>>
    /\ pending' = <<>>
    /\ batch' = <<>>
    /\ embedded' = 0
    /\ rejected' = {}
    /\ nodeFailed' = {}
    /\ UNCHANGED <<vector, nodes, edges, fin, payload, props>>

Init ==
    /\ vector = {}
    /\ nodes = [i \in Ids |-> 0]
    /\ edges = EmptyBag
    /\ pc = "idle"
    /\ call = NoCall
    /\ todo = <<>>
    /\ pending = <<>>
    /\ batch = <<>>
    /\ embedded = 0
    /\ rejected = {}
    /\ nodeFailed = {}
    /\ hist = <<>>
    /\ ret = None
    /\ pre = NoStores
    /\ fin = <<>>
    /\ payload = [i \in Ids |-> NoFeedback]
    /\ props = [i \in Ids |-> NoProps]

\* graph_store.create_relationship for the first relationship of todo, with
\* source src: the edge on success, nothing on an exception inside the client
CreateRel(src) ==
    /\ todo # <<>>
    /\ LET rel == Head(todo) IN
       \E ok \in {b \in BOOLEAN : b => EdgeRoom(src, rel.target_id)} :
         IF ok
         THEN /\ edges' = create_relationship(edges, nodes, src, rel.target_id,
                                              rel.type, RelWeight(rel))
              /\ Log("edge_ok")
         ELSE /\ Log("edge_fail")
              /\ UNCHANGED edges
    /\ todo' = Tail(todo)

-----------------------------------------------------------------------------
(* IngestionService.ingest_recommendation *)

\* the call is made; combine_text_fields builds the text, and the first
\* awaited call is the embedding
ingest_recommendation_graph_first(id, relationships) ==
    /\ Enter("ingest", id)
    /\ todo' = relationships
    /\ ret' = None
    /\ pending' = <<>>
    /\ batch' = <<>>
    /\ id # None
    /\ pc' = "ingest_node"
ingest_recommendation(id, relationships) ==
    /\ Enter("ingest", id)
    /\ todo' = relationships
    /\ ret' = None
    /\ pending' = <<>>
    /\ batch' = <<>>
    /\ pc' = "ingest_embed"

\* generate_embedding re-raises what the provider raised, and after the
\* embedding recommendation["id"] raises KeyError for a dict with no "id"
\* (call.id is None): either way the handler returns None
IngestAfterEmbed_swallowed(ok) ==
    IF call.id = None THEN Return(None)
    ELSE pc' = "ingest_upsert" /\ UNCHANGED ret
IngestAfterEmbed(ok) ==
    IF ok /\ call.id # None THEN pc' = "ingest_upsert" /\ UNCHANGED ret
    ELSE Return(None)

\* embedding_service.generate_embedding
ingest_embed ==
    /\ pc = "ingest_embed"
    /\ \E ok \in BOOLEAN :
         /\ Log(IF ok THEN "embed_ok" ELSE "embed_fail")
         /\ IngestAfterEmbed(ok)
    /\ UNCHANGED <<vector, nodes, edges, call, todo, pending, batch, embedded,
                   rejected, nodeFailed, pre, fin, payload, props>>

\* "if not vector_success: raise": the handler returns None
IngestAfterUpsert_unchecked(ok) == pc' = "ingest_node" /\ UNCHANGED ret
IngestAfterUpsert(ok) ==
    IF ok THEN pc' = "ingest_node" /\ UNCHANGED ret ELSE Return(None)

\* vector_store.store_recommendation
ingest_upsert ==
    /\ pc = "ingest_upsert"
    /\ \E ok \in BOOLEAN :
         /\ IF ok
            THEN vector' = store_recommendation(vector, call.id) /\ Log("upsert_ok")
            ELSE UNCHANGED vector /\ Log("upsert_fail")
         /\ IngestAfterUpsert(ok)
    /\ UNCHANGED <<nodes, edges, call, todo, pending, batch, embedded,
                   rejected, nodeFailed, pre, fin, payload, props>>

\* "if not graph_success": roll back; else "if relationships": the loop;
\* else return the id
IngestAfterNode_unchecked(ok) ==
    IF todo # <<>> THEN pc' = "ingest_rels" /\ UNCHANGED ret ELSE Return(call.id)
IngestAfterNode(ok) ==
    IF ~ok THEN pc' = "ingest_rollback" /\ UNCHANGED ret
    ELSE IF todo # <<>> THEN pc' = "ingest_rels" /\ UNCHANGED ret
    ELSE Return(call.id)

\* graph_store.create_recommendation_node
ingest_node ==
    /\ pc = "ingest_node"
    /\ \E ok \in {b \in BOOLEAN : b => NodeRoom(call.id)} :
         /\ IF ok
            THEN nodes' = create_recommendation_node(nodes, call.id) /\ Log("node_ok")
            ELSE UNCHANGED nodes /\ Log("node_fail")
         /\ IngestAfterNode(ok)
    /\ UNCHANGED <<vector, edges, call, todo, pending, batch, embedded,
                   rejected, nodeFailed, pre, fin, payload, props>>

\* "Rollback vector store": vector_store.delete_recommendation, whose result
\* is not looked at, then raise: the handler returns None
ingest_rollback ==
    /\ pc = "ingest_rollback"
    /\ \E ok \in BOOLEAN :
         IF ok
         THEN vector' = vector_delete_recommendation(vector, call.id) /\ Log("rollback_ok")
         ELSE UNCHANGED vector /\ Log("rollback_fail")
    /\ Return(None)
    /\ UNCHANGED <<nodes, edges, call, todo, pending, batch, embedded,
                   rejected, nodeFailed, pre, fin, payload, props>>

\* the result of create_relationship is not looked at: the loop goes on to
\* the next relationship, and after the last one the id is returned
IngestAfterRel_raises ==
    IF hist'[Len(hist')] = "edge_fail" THEN Return(None)
    ELSE IF todo' = <<>> THEN Return(call.id) ELSE UNCHANGED <<pc, ret>>
IngestAfterRel ==
    IF todo' = <<>> THEN Return(call.id) ELSE UNCHANGED <<pc, ret>>

\* one pass of "for rel in relationships"
ingest_rels ==
    /\ pc = "ingest_rels"
    /\ CreateRel(call.id)
    /\ IngestAfterRel
    /\ UNCHANGED <<vector, nodes, call, pending, batch, embedded,
                   rejected, nodeFailed, pre, fin, payload, props>>

-----------------------------------------------------------------------------
(* IngestionService.ingest_recommendations *)

\* position in the batch of the item the graph loop is at
Position == Len(batch) - Len(pending) + 1

\* the call is made; combine_text_fields builds the texts
ingest_recommendations(recs) ==
    /\ Enter("ingest_many", None)
    /\ batch' = [i \in DOMAIN recs |-> recs[i].id]
    /\ pending' = recs
    /\ todo' = <<>>
    /\ ret' = <<>>
    /\ pc' = "many_embed"

\* generate_batch_embeddings re-raises the failure of a chunk request: the
\* handler returns []; after the last chunk the batch is stored
ManyAfterEmbed_swallowed(ok) ==
    /\ pc' = IF ~ok \/ embedded' = Len(batch) THEN "many_upsert" ELSE "many_embed"
    /\ UNCHANGED ret
ManyAfterEmbed(ok) ==
    IF ~ok THEN Return(<<>>)
    ELSE /\ pc' = IF embedded' = Len(batch) THEN "many_upsert" ELSE "many_embed"
         /\ UNCHANGED ret

\* generate_batch_embeddings: the request of the chunk texts[i:i + batch_size]
many_embed ==
    /\ pc = "many_embed"
    /\ embedded < Len(batch)
    /\ \E ok \in BOOLEAN :
         /\ IF ok
            THEN embedded' = Min(embedded + BatchSize, Len(batch)) /\ Log("embed_ok")
            ELSE UNCHANGED embedded /\ Log("embed_fail")
         /\ ManyAfterEmbed(ok)
    /\ UNCHANGED <<vector, nodes, edges, call, todo, pending, batch,
                   rejected, nodeFailed, pre, fin, payload, props>>

\* vector_store.batch_store_recommendations: one upsert request carrying
\* every point; it fails when the index rejects any of them, and then
\* "if not vector_success: raise" makes the handler return []
many_upsert ==
    /\ pc = "many_upsert"
    /\ \E bad \in SUBSET DOMAIN batch :
         /\ rejected' = bad
         /\ IF bad = {}
            THEN /\ vector' = batch_store_recommendations(vector, batch)
                 /\ Log("upsert_ok")
                 /\ pc' = "many_node"
                 /\ UNCHANGED ret
            ELSE /\ UNCHANGED vector
                 /\ Log("upsert_fail")
                 /\ Return(<<>>)
    /\ UNCHANGED <<nodes, edges, call, todo, pending, batch, embedded,
                   nodeFailed, pre, fin, payload, props>>

\* the graph loop leaves the item at the head of pending and goes on to the
\* next one; after the last one successful_ids (ids) is returned
NextItem(ids) ==
    /\ pending' = Tail(pending)
    /\ IF Tail(pending) = <<>>
       THEN Return(ids)
       ELSE pc' = "many_node" /\ ret' = ids

\* "if node_success": the id is appended and the relationships of the item
\* are created; otherwise the loop goes on to the next item
ManyAfterNode_aborts(ok) ==
    LET rec == Head(pending) IN
    IF ~ok THEN pending' = <<>> /\ Return(ret) /\ UNCHANGED todo
    ELSE IF rec.relationships # <<>>
    THEN /\ todo' = rec.relationships
         /\ ret' = Append(ret, rec.id)
         /\ pc' = "many_rels"
         /\ UNCHANGED pending
    ELSE NextItem(Append(ret, rec.id)) /\ UNCHANGED todo
ManyAfterNode(ok) ==
    LET rec == Head(pending) IN
    IF ~ok THEN NextItem(ret) /\ UNCHANGED todo
    ELSE IF rec.relationships # <<>>
    THEN /\ todo' = rec.relationships
         /\ ret' = Append(ret, rec.id)
         /\ pc' = "many_rels"
         /\ UNCHANGED pending
    ELSE NextItem(Append(ret, rec.id)) /\ UNCHANGED todo

\* "for rec in recommendations": graph_store.create_recommendation_node
many_node ==
    /\ pc = "many_node"
    /\ pending # <<>>
    /\ \E ok \in {b \in BOOLEAN : b => NodeRoom(Head(pending).id)} :
         /\ IF ok
            THEN /\ nodes' = create_recommendation_node(nodes, Head(pending).id)
                 /\ Log("node_ok")
                 /\ UNCHANGED nodeFailed
            ELSE /\ UNCHANGED nodes
                 /\ Log("node_fail")
                 /\ nodeFailed' = nodeFailed \cup {Position}
         /\ ManyAfterNode(ok)
    /\ UNCHANGED <<vector, edges, call, batch, embedded, rejected, pre, fin, payload, props>>

\* one pass of "for rel in rec['relationships']"
many_rels ==
    /\ pc = "many_rels"
    /\ CreateRel(Head(pending).id)
    /\ IF todo' # <<>>
       THEN UNCHANGED <<pc, ret, pending>>
       ELSE NextItem(ret)
    /\ UNCHANGED <<vector, nodes, call, batch, embedded, rejected,
                   nodeFailed, pre, fin, payload, props>>

-----------------------------------------------------------------------------
(* IngestionService.delete_recommendation *)

delete_recommendation(id) ==
    /\ Enter("delete", id)
    /\ todo' = <<>>
    /\ pending' = <<>>
    /\ batch' = <<>>
    /\ ret' = None
    /\ pc' = "delete_vector"

\* vector_store.delete_recommendation
delete_vector ==
    /\ pc = "delete_vector"
    /\ \E ok \in BOOLEAN :
         IF ok
         THEN vector' = vector_delete_recommendation(vector, call.id) /\ Log("vdel_ok")
         ELSE UNCHANGED vector /\ Log("vdel_fail")
    /\ pc' = "delete_graph"
    /\ UNCHANGED <<nodes, edges, call, todo, pending, batch, embedded,
                   rejected, nodeFailed, ret, pre, fin, payload, props>>

\* "return vector_success and graph_success"
DeleteResult_either(vector_success, graph_success) == vector_success \/ graph_success
DeleteResult(vector_success, graph_success) == vector_success /\ graph_success

\* graph_store.delete_recommendation, then the return
delete_graph ==
    /\ pc = "delete_graph"
    /\ \E ok \in BOOLEAN :
         /\ IF ok
            THEN /\ nodes' = graph_delete_nodes(nodes, call.id)
                 /\ edges' = graph_delete_edges(edges, call.id)
                 /\ Log("gdel_ok")
            ELSE /\ UNCHANGED <<nodes, edges>>
                 /\ Log("gdel_fail")
         /\ Return(DeleteResult(Did("vdel_ok"), ok))
    /\ UNCHANGED <<vector, call, todo, pending, batch, embedded,
                   rejected, nodeFailed, pre, fin, payload, props>>

-----------------------------------------------------------------------------
(* IngestionService.update_recommendation *)

\* "if regenerate_embedding and ('title' in updates or 'content' in updates)"
Regenerates(keys, regenerate_embedding) ==
    regenerate_embedding /\ ("title" \in keys \/ "content" \in keys)

\* the call is made; relationships = <<>> stands for an update that names none
update_recommendation(id, keys, relationships, regenerate_embedding) ==
    /\ Enter("update", id)
    /\ todo' = relationships
    /\ pending' = <<>>
    /\ batch' = <<>>
    /\ ret' = None
    /\ pc' = IF Regenerates(keys, regenerate_embedding)
             THEN "update_embed" ELSE "update_patch"

\* after the vector write, whose result is not looked at: the relationships
\* if the update names any, then return True
AfterVectorUpdate ==
    IF todo # <<>> THEN pc' = "update_rels" /\ UNCHANGED ret ELSE Return(TRUE)

\* embedding_service.generate_embedding: re-raises, the handler returns False
update_embed ==
    /\ pc = "update_embed"
    /\ \E ok \in BOOLEAN :
         IF ok
         THEN Log("embed_ok") /\ pc' = "update_upsert" /\ UNCHANGED ret
         ELSE Log("embed_fail") /\ Return(FALSE)
    /\ UNCHANGED <<vector, nodes, edges, call, todo, pending, batch, embedded,
                   rejected, nodeFailed, pre, fin, payload, props>>

\* vector_store.store_recommendation
update_upsert ==
    /\ pc = "update_upsert"
    /\ \E ok \in BOOLEAN :
         IF ok
         THEN vector' = store_recommendation(vector, call.id) /\ Log("upsert_ok")
         ELSE UNCHANGED vector /\ Log("upsert_fail")
    /\ AfterVectorUpdate
    /\ UNCHANGED <<nodes, edges, call, todo, pending, batch, embedded,
                   rejected, nodeFailed, pre, fin, payload, props>>

\* vector_store.update_metadata
update_patch ==
    /\ pc = "update_patch"
    /\ \E ok \in BOOLEAN :
         IF ok
         THEN vector' = update_metadata(vector, call.id) /\ Log("patch_ok")
         ELSE UNCHANGED vector /\ Log("patch_fail")
    /\ AfterVectorUpdate
    /\ UNCHANGED <<nodes, edges, call, todo, pending, batch, embedded,
                   rejected, nodeFailed, pre, fin, payload, props>>

\* one pass of "for rel in updates['relationships']", then return True
update_rels ==
    /\ pc = "update_rels"
    /\ CreateRel(call.id)
    /\ IF todo' = <<>> THEN Return(TRUE) ELSE UNCHANGED <<pc, ret>>
    /\ UNCHANGED <<vector, nodes, call, pending, batch, embedded,
                   rejected, nodeFailed, pre, fin, payload, props>>

-----------------------------------------------------------------------------
(* RecommendationService._combine_rankings and the truncation to limit.     *)
(* Scores and weights are tenths, final scores hundredths.                  *)

\* longest list of vector hits and of graph neighbours given to the fusion
MaxHits == 2

FusionIds == {"A", "B", "C"}
VectorHits == [id : FusionIds, score : {4, 9}]
GraphHits == [id : FusionIds, weight : {6, 8}]
Limits == {1, 2, 3}

\* the vector index returns a point at most once
DistinctIds(hits) == \A i, j \in DOMAIN hits : hits[i].id = hits[j].id => i = j
VectorResults ==
    {h \in UNION {[1..n -> VectorHits] : n \in 0..MaxHits} : DistinctIds(h)}
GraphResults == UNION {[1..n -> GraphHits] : n \in 0..MaxHits}

\* position of id in the insertion-ordered map m, 0 when it has no entry
RECURSIVE Find(_, _, _)
Find(m, id, k) ==
    IF k > Len(m) THEN 0
    ELSE IF m[k].id = id THEN k
    ELSE Find(m, id, k + 1)

\* combined_map[key] = entry: an existing key keeps its place
Put(m, entry) ==
    LET k == Find(m, entry.id, 1)
    IN  IF k = 0 THEN Append(m, entry) ELSE [m EXCEPT ![k] = entry]

\* "Process vector results"
RECURSIVE ProcessVector(_, _)
ProcessVector(m, hits) ==
    IF hits = <<>> THEN m
    ELSE ProcessVector(
            Put(m, [id |-> Head(hits).id, vector_score |-> Head(hits).score,
                    graph_score |-> 0]),
            Tail(hits))

\* result.get("weight", 0): a row without the key weight counts as 0
GraphWeight(result) == IF "weight" \in DOMAIN result THEN result.weight ELSE 0

\* combined_map[id]["graph_score"] = result.get("weight", 0): the value
\* takes the place of the one the entry had
GraphLeg_sum(graph_score, result) == graph_score + GraphWeight(result)
GraphLeg(graph_score, result) == GraphWeight(result)

\* "Process graph results"
RECURSIVE ProcessGraph(_, _)
ProcessGraph(m, hits) ==
    IF hits = <<>> THEN m
    ELSE LET h == Head(hits)
             k == Find(m, h.id, 1)
         IN  ProcessGraph(
                IF k # 0
                THEN [m EXCEPT ![k].graph_score = GraphLeg(@, h)]
                ELSE Append(m, [id |-> h.id, vector_score |-> 0,
                                graph_score |-> GraphWeight(h)]),
                Tail(hits))

\* vector_score * 0.7 + graph_score * 0.3
FinalScore_swapped(vector_score, graph_score) == vector_score * 3 + graph_score * 7
FinalScore(vector_score, graph_score) == vector_score * 7 + graph_score * 3

\* "Calculate final scores"
Scored(m) ==
    [k \in DOMAIN m |->
        [id |-> m[k].id, vector_score |-> m[k].vector_score,
         graph_score |-> m[k].graph_score,
         final_score |-> FinalScore(m[k].vector_score, m[k].graph_score)]]

\* sorted(results, key=final_score, reverse=True): a stable sort, equal
\* scores keep the order of the map
RECURSIVE Insert(_, _)
Insert(sorted, r) ==
    IF sorted = <<>> THEN <<r>>
    ELSE IF Head(sorted).final_score >= r.final_score
         THEN <<Head(sorted)>> \o Insert(Tail(sorted), r)
         ELSE <<r>> \o sorted
RECURSIVE SortDescending(_, _)
SortDescending(sorted, rest) ==
    IF rest = <<>> THEN sorted
    ELSE SortDescending(Insert(sorted, Head(rest)), Tail(rest))

combine_rankings(vector_results, graph_results) ==
    SortDescending(<<>>,
        Scored(ProcessGraph(ProcessVector(<<>>, vector_results), graph_results)))

\* combined_results[:limit]
Truncate_none(results, limit) == results
Truncate(results, limit) == SubSeq(results, 1, Min(limit, Len(results)))

\* the hits a call of get_recommendations hands to the fusion
InitFusion ==
    /\ vector = {}
    /\ nodes = [i \in Ids |-> 0]
    /\ edges = EmptyBag
    /\ pc = "idle"
    /\ call = NoCall
    /\ todo = <<>>
    /\ pending = <<>>
    /\ batch = <<>>
    /\ embedded = 0
    /\ rejected = {}
    /\ nodeFailed = {}
    /\ hist = <<>>
    /\ ret = None
    /\ pre = NoStores
    /\ \E v \in VectorResults, g \in GraphResults, l \in Limits :
         fin = [stage |-> "hits", vector_results |-> v, graph_results |-> g,
                limit |-> l, combined |-> <<>>, out |-> <<>>]
    /\ payload = [i \in Ids |-> NoFeedback]
    /\ props = [i \in Ids |-> NoProps]

\* "combined_results = self._combine_rankings(...)"
fuse ==
    /\ fin.stage = "hits"
    /\ fin' = [fin EXCEPT !.stage = "combined",
                          !.combined = combine_rankings(fin.vector_results,
                                                        fin.graph_results)]
    /\ UNCHANGED <<vector, nodes, edges, pc, call, todo, pending, batch,
                   embedded, rejected, nodeFailed, hist, ret, pre, payload, props>>

\* "return combined_results[:limit]"
truncate ==
    /\ fin.stage = "combined"
    /\ fin' = [fin EXCEPT !.stage = "returned",
                          !.out = Truncate(fin.combined, fin.limit)]
    /\ UNCHANGED <<vector, nodes, edges, pc, call, todo, pending, batch,
                   embedded, rejected, nodeFailed, hist, ret, pre, payload, props>>

NextFusion == fuse \/ truncate

SpecFusion == InitFusion /\ [][NextFusion]_vars

-----------------------------------------------------------------------------
(* RecommendationService.create_relationship *)

\* the call is made for the relationship rel from source_id
service_create_relationship(source_id, rel) ==
    /\ Idle
    /\ call' = [op |-> "relate", id |-> source_id, target_id |-> rel.target_id,
                type |-> rel.type]
    /\ hist' = <<>>
    /\ pre' = [vector |-> vector, nodes |-> nodes, edges |-> edges]
    /\ todo' = <<rel>>
    /\ ret' = None
    /\ pending' = <<>>
    /\ batch' = <<>>
    /\ pc' = "relate_edge"
    /\ UNCHANGED <<vector, nodes, edges, embedded, rejected, nodeFailed, fin,
                   payload, props>>

\* "return await self.graph_store.create_relationship(...)": True when the
\* query ran without an exception, False otherwise
relate_edge ==
    /\ pc = "relate_edge"
    /\ CreateRel(call.id)
    /\ Return(hist'[Len(hist')] = "edge_ok")
    /\ UNCHANGED <<vector, nodes, call, pending, batch, embedded,
                   rejected, nodeFailed, pre, fin, payload, props>>

-----------------------------------------------------------------------------
Next ==
    \/ \E id \in Ids \cup {None}, rl \in RelLists : ingest_recommendation(id, rl)
    \/ ingest_embed
    \/ ingest_upsert
    \/ ingest_node
    \/ ingest_rollback
    \/ ingest_rels
    \/ \E recs \in Batches : ingest_recommendations(recs)
    \/ many_embed
    \/ many_upsert
    \/ many_node
    \/ many_rels
    \/ \E id \in Ids : delete_recommendation(id)
    \/ delete_vector
    \/ delete_graph
    \/ \E id \in Ids, keys \in SUBSET UpdateKeys, rl \in RelLists, re \in BOOLEAN :
         update_recommendation(id, keys, rl, re)
    \/ update_embed
    \/ update_upsert
    \/ update_patch
    \/ update_rels
    \/ \E id \in Ids, rel \in Rels : service_create_relationship(id, rel)
    \/ relate_edge
    \/ respond

Spec == Init /\ [][Next]_vars

-----------------------------------------------------------------------------
(* RecommendationService.create_recommendation: the record gets a fresh     *)
(* uuid4 as its id, so the ids of this specification are ids of their own;  *)
(* created records are deleted by IngestionService.delete_recommendation.   *)

\* the values str(uuid.uuid4()) gives
Uuids == {"u1", "u2"}

InitCreate ==
    /\ vector = {}
    /\ nodes = [i \in Uuids |-> 0]
    /\ edges = EmptyBag
    /\ pc = "idle"
    /\ call = NoCall
    /\ todo = <<>>
    /\ pending = <<>>
    /\ batch = <<>>
    /\ embedded = 0
    /\ rejected = {}
    /\ nodeFailed = {}
    /\ hist = <<>>
    /\ ret = None
    /\ pre = NoStores
    /\ fin = <<>>
    /\ payload = [i \in Uuids |-> NoFeedback]
    /\ props = [i \in Uuids |-> NoProps]

\* the call is made and draws its id, one that no record has
create_recommendation(id) ==
    /\ id \notin vector
    /\ nodes[id] = 0
    /\ Enter("create", id)
    /\ todo' = <<>>
    /\ ret' = None
    /\ pending' = <<>>
    /\ batch' = <<>>
    /\ pc' = "create_upsert"

\* vector_success = await self.vector_store.store_recommendation(...): the
\* node creation follows whatever the result
create_upsert ==
    /\ pc = "create_upsert"
    /\ \E ok \in BOOLEAN :
         IF ok
         THEN vector' = store_recommendation(vector, call.id) /\ Log("upsert_ok")
         ELSE UNCHANGED vector /\ Log("upsert_fail")
    /\ pc' = "create_node"
    /\ UNCHANGED <<nodes, edges, call, todo, pending, batch, embedded,
                   rejected, nodeFailed, ret, pre, fin, payload, props>>

\* graph_success = await self.graph_store.create_recommendation_node(...);
\* "if vector_success and graph_success: return recommendation_id", else
\* None, with nothing undone
create_node ==
    /\ pc = "create_node"
    /\ \E ok \in {b \in BOOLEAN : b => NodeRoom(call.id)} :
         /\ IF ok
            THEN nodes' = create_recommendation_node(nodes, call.id) /\ Log("node_ok")
            ELSE UNCHANGED nodes /\ Log("node_fail")
         /\ Return(IF Did("upsert_ok") /\ ok THEN call.id ELSE None)
    /\ UNCHANGED <<vector, edges, call, todo, pending, batch, embedded,
                   rejected, nodeFailed, pre, fin, payload, props>>

NextCreate ==
    \/ \E id \in Uuids : create_recommendation(id)
    \/ create_upsert
    \/ create_node
    \/ \E id \in Uuids : delete_recommendation(id)
    \/ delete_vector
    \/ delete_graph
    \/ respond

SpecCreate == InitCreate /\ [][NextCreate]_vars

-----------------------------------------------------------------------------
(* ingest_recommendation called with relationship weights of any size.      *)

\* weights a caller of the service may hand over: none, 1.5, -0.5, 0.5
AnyWeightRels == [target_id : Ids, type : {"similar"}, weight : {NoWeight, 15, -5, 5}]
AnyWeightRelLists == {<<>>} \cup {<<r>> : r \in AnyWeightRels}

NextWeights ==
    \/ \E id \in Ids, rl \in AnyWeightRelLists : ingest_recommendation(id, rl)
    \/ ingest_embed
    \/ ingest_upsert
    \/ ingest_node
    \/ ingest_rollback
    \/ ingest_rels
    \/ respond

SpecWeights == Init /\ [][NextWeights]_vars

-----------------------------------------------------------------------------
(* GraphStore.get_recommendation_cluster and the cluster method of the     *)
(* recommendation service. Weights are tenths, cluster scores hundredths.  *)

\* most edges of a graph the cluster is asked on
MaxClusterEdges == 3

\* "max_depth: int = 2"
MaxDepth == 2

ClusterIds == {"r1", "r2", "r3"}
ClusterWeights == {4, 8, 9}
MinWeights == {5, 9}

EdgeKeys(ids, types, weights) ==
    {[src |-> s, tgt |-> t, type |-> ty, weight |-> w] :
        s \in ids, t \in ids, ty \in types, w \in weights}

\* the sets of at most n elements of S
RECURSIVE SubsetsUpTo(_, _)
SubsetsUpTo(S, n) ==
    IF n = 0 THEN {{}}
    ELSE LET smaller == SubsetsUpTo(S, n - 1)
         IN  smaller \cup {s \cup {x} : s \in smaller, x \in S}

\* graphs without loops in which every id has one node
ClusterGraphs ==
    {SetToBag(g) :
        g \in SubsetsUpTo({k \in EdgeKeys(ClusterIds, {"similar"}, ClusterWeights) :
                              k.src # k.tgt},
                          MaxClusterEdges)}

\* the relationships of the graph, one for each copy of an edge
Relationships(e) ==
    UNION {{[edge |-> k, copy |-> i] : i \in 1..e[k]} : k \in DOMAIN e}

InPath(rel, path) == \E i \in DOMAIN path : path[i] = rel

\* the matches of (source {id: root})-[r:RELATES_TO*n]->(related): outbound
\* relationships end to end, none of them taken twice
RECURSIVE PathsOfLength(_, _, _)
PathsOfLength(e, root, n) ==
    IF n = 1
    THEN {<<rel>> : rel \in {x \in Relationships(e) : x.edge.src = root}}
    ELSE {Append(q[1], q[2]) :
            q \in {x \in PathsOfLength(e, root, n - 1) \X Relationships(e) :
                     /\ x[2].edge.src = x[1][n - 1].edge.tgt
                     /\ ~InPath(x[2], x[1])}}

\* -[r:RELATES_TO*..max_depth]->
Paths(e, root, max_depth) ==
    UNION {PathsOfLength(e, root, n) : n \in 1..max_depth}

\* WHERE ALL(rel in r WHERE rel.weight >= $min_weight)
Admissible_any(path, min_weight) ==
    \E i \in DOMAIN path : path[i].edge.weight >= min_weight
Admissible(path, min_weight) ==
    \A i \in DOMAIN path : path[i].edge.weight >= min_weight

RECURSIVE Tenths(_)
Tenths(n) == IF n = 0 THEN 1 ELSE 10 * Tenths(n - 1)

\* reduce(weight = 1.0, rel in r | weight * rel.weight), in hundredths
RECURSIVE Product(_)
Product(path) ==
    IF path = <<>> THEN 1 ELSE Head(path).edge.weight * Product(Tail(path))
ClusterScore_last(path) == path[Len(path)].edge.weight * Tenths(MaxDepth - 1)
ClusterScore(path) == Product(path) * Tenths(MaxDepth - Len(path))

\* "RETURN related.id as id, ... as cluster_score": one row for each path
ClusterRow(path) ==
    [id |-> path[Len(path)].edge.tgt, cluster_score |-> ClusterScore(path)]

\* ORDER BY cluster_score DESC: the orders the database may give the rows
\* in, rows of equal score in any order
RECURSIVE Ordered(_)
Ordered(paths) ==
    IF paths = {} THEN {<<>>}
    ELSE LET top == {p \in paths :
                        \A q \in paths : ClusterScore(q) <= ClusterScore(p)}
         IN  UNION {{<<ClusterRow(p)>> \o rows : rows \in Ordered(paths \ {p})} :
                      p \in top}

\* the row lists the query of the graph store may return
ClusterRows(n, e, id, min_weight, max_depth) ==
    IF n[id] = 0 THEN {<<>>}
    ELSE Ordered({p \in Paths(e, id, max_depth) : Admissible(p, min_weight)})

\* the vector neighbours handed to the fusion of a cluster
ClusterVectorResults ==
    {<<>>} \cup {<<[id |-> i, score |-> sc]>> : i \in ClusterIds, sc \in {4, 9}}

\* every id ingested once, the graph any of ClusterGraphs
InitCluster ==
    /\ vector = ClusterIds
    /\ nodes = [i \in ClusterIds |-> 1]
    /\ edges \in ClusterGraphs
    /\ pc = "idle"
    /\ call = NoCall
    /\ todo = <<>>
    /\ pending = <<>>
    /\ batch = <<>>
    /\ embedded = 0
    /\ rejected = {}
    /\ nodeFailed = {}
    /\ hist = <<>>
    /\ ret = None
    /\ pre = NoStores
    /\ fin = [stage |-> "none"]
    /\ payload = [i \in ClusterIds |-> NoFeedback]
    /\ props = [i \in ClusterIds |-> NoProps]

\* GraphStore.get_recommendation_cluster: one query; an exception inside the
\* session gives the empty list
graph_get_recommendation_cluster(id, min_weight, max_depth) ==
    /\ Idle
    /\ call' = [op |-> "graph_cluster", id |-> id, min_weight |-> min_weight,
                max_depth |-> max_depth]
    /\ pre' = [vector |-> vector, nodes |-> nodes, edges |-> edges]
    /\ \E ok \in BOOLEAN :
         IF ok
         THEN /\ hist' = <<"cluster_ok">>
              /\ \E rows \in ClusterRows(nodes, edges, id, min_weight, max_depth) :
                   Return(rows)
         ELSE hist' = <<"cluster_fail">> /\ Return(<<>>)
    /\ UNCHANGED <<vector, nodes, edges, todo, pending, batch, embedded,
                   rejected, nodeFailed, fin, payload, props>>

\* _combine_rankings(similar_vector, graph_cluster, ...) on the rows the graph
\* store returned; the rows carry cluster_score and no weight
cluster_combine ==
    /\ Returned("graph_cluster")
    /\ Did("cluster_ok")
    /\ fin.stage = "none"
    /\ \E v \in ClusterVectorResults :
         fin' = [stage |-> "combined", vector_results |-> v,
                 graph_results |-> ret, combined |-> combine_rankings(v, ret)]
    /\ UNCHANGED <<vector, nodes, edges, pc, call, todo, pending, batch,
                   embedded, rejected, nodeFailed, hist, ret, pre, payload, props>>

\* RecommendationService.get_recommendation_cluster up to its first await
get_recommendation_cluster(id, min_similarity, min_weight) ==
    /\ Idle
    /\ call' = [op |-> "cluster", id |-> id, min_similarity |-> min_similarity,
                min_weight |-> min_weight]
    /\ pre' = [vector |-> vector, nodes |-> nodes, edges |-> edges]
    /\ hist' = <<>>
    /\ pc' = "cluster_lookup"
    /\ UNCHANGED <<vector, nodes, edges, todo, pending, batch, embedded,
                   rejected, nodeFailed, ret, fin, payload, props>>

\* search_recommendations(recommendation_id, limit=1) is given the id where
\* the index expects a vector. With no hit the method returns []; with a hit
\* vector_result[0]["embedding"] raises KeyError, a hit having only the keys
\* id, score and metadata, and the handler returns [] as well. The second
\* search, the graph query and the fusion are never reached.
cluster_lookup ==
    /\ pc = "cluster_lookup"
    /\ \E found \in BOOLEAN : Log(IF found THEN "lookup_hit" ELSE "lookup_empty")
    /\ Return(<<>>)
    /\ UNCHANGED <<vector, nodes, edges, call, todo, pending, batch, embedded,
                   rejected, nodeFailed, pre, fin, payload, props>>

NextCluster ==
    \/ \E id \in ClusterIds, mw \in MinWeights, d \in 1..MaxDepth :
         graph_get_recommendation_cluster(id, mw, d)
    \/ cluster_combine
    \/ \E id \in ClusterIds, mw \in MinWeights :
         get_recommendation_cluster(id, 7, mw)
    \/ cluster_lookup

SpecCluster == InitCluster /\ [][NextCluster]_vars

-----------------------------------------------------------------------------
(* RecommendationService.update_recommendation_feedback. The reinforcement *)
(* of 0.1 is one tenth.                                                     *)

\* most edges of a graph feedback is given on
MaxFeedbackEdges == 3

\* get_related_recommendations: "limit: int = 5"
RelatedLimit == 5

\* "0.1  # Small positive reinforcement"
Reinforcement == 1

FeedbackTypes == {"similar", "next"}
FeedbackWeights == {5, 9}
Feedbacks == {None, "done"}

FeedbackGraphs ==
    {SetToBag(g) :
        g \in SubsetsUpTo({k \in EdgeKeys(ClusterIds, FeedbackTypes, FeedbackWeights) :
                              k.src # k.tgt},
                          MaxFeedbackEdges)}

\* metadata_update of update_recommendation_feedback
FeedbackFields(feedback) ==
    [last_feedback |-> "now", implementation_count |-> 1,
     user_feedback |-> feedback]

\* client.set_payload(payload=metadata, points=[id]): the fields are written
\* over those of the point; there is nothing to write to without the point
set_payload(p, v, id, fields) == IF id \in v THEN [p EXCEPT ![id] = fields] ELSE p

\* "RETURN related.id as id, ..., r.type, r.weight": one row for each
\* outbound relationship of the source
RelatedRow(rel) ==
    [id |-> rel.edge.tgt, relationship_type |-> rel.edge.type,
     weight |-> rel.edge.weight]

\* ORDER BY r.weight DESC, equal weights in any order
RECURSIVE ByWeight(_)
ByWeight(rels) ==
    IF rels = {} THEN {<<>>}
    ELSE LET top == {x \in rels :
                        \A y \in rels : y.edge.weight <= x.edge.weight}
         IN  UNION {{<<RelatedRow(x)>> \o rows : rows \in ByWeight(rels \ {x})} :
                      x \in top}

\* the row lists GraphStore.get_related_recommendations(id, limit=limit) may
\* return
get_related_recommendations(e, id, limit) ==
    {Truncate(rows, limit) :
        rows \in ByWeight({x \in Relationships(e) : x.edge.src = id})}

\* GraphStore.update_relationship_weight: SET r.weight = r.weight + change on
\* every relationship from source_id to target_id, whatever its type
Targeted_undirected(k, source_id, target_id) ==
    \/ k.src = source_id /\ k.tgt = target_id
    \/ k.src = target_id /\ k.tgt = source_id
Targeted(k, source_id, target_id) == k.src = source_id /\ k.tgt = target_id

update_relationship_weight(e, source_id, target_id, weight_change) ==
    LET Set(k) == IF Targeted(k, source_id, target_id)
                  THEN [k EXCEPT !.weight = @ + weight_change]
                  ELSE k
    IN  [x \in {Set(k) : k \in DOMAIN e} |->
            e[CHOOSE k \in DOMAIN e : Set(k) = x]]

\* "if is_implemented:"
Reinforces_always(is_implemented) == TRUE
Reinforces(is_implemented) == is_implemented

\* every id has one node, the graph is any of FeedbackGraphs, r2 may be
\* missing from the vector index
InitFeedback ==
    /\ vector \in {ClusterIds, ClusterIds \ {"r2"}}
    /\ nodes = [i \in ClusterIds |-> 1]
    /\ edges \in FeedbackGraphs
    /\ pc = "idle"
    /\ call = NoCall
    /\ todo = <<>>
    /\ pending = <<>>
    /\ batch = <<>>
    /\ embedded = 0
    /\ rejected = {}
    /\ nodeFailed = {}
    /\ hist = <<>>
    /\ ret = None
    /\ pre = NoStores
    /\ fin = <<>>
    /\ payload = [i \in ClusterIds |-> NoFeedback]
    /\ props = [i \in ClusterIds |-> NoProps]

update_recommendation_feedback(id, is_implemented, feedback) ==
    /\ Idle
    /\ call' = [op |-> "feedback", id |-> id, is_implemented |-> is_implemented,
                feedback |-> feedback]
    /\ pre' = [vector |-> vector, nodes |-> nodes, edges |-> edges]
    /\ hist' = <<>>
    /\ pc' = "feedback_patch"
    /\ UNCHANGED <<vector, nodes, edges, todo, pending, batch, embedded,
                   rejected, nodeFailed, ret, fin, payload, props>>

\* "return vector_success"
FeedbackResult_all ==
    Return(Did("patch_ok") /\ \A i \in DOMAIN hist' : hist'[i] # "weight_fail")
FeedbackResult == Return(Did("patch_ok"))

\* vector_success = await self.vector_store.update_metadata(...)
feedback_patch ==
    /\ pc = "feedback_patch"
    /\ \E ok \in BOOLEAN :
         /\ IF ok
            THEN /\ payload' = set_payload(payload, vector, call.id,
                                           FeedbackFields(call.feedback))
                 /\ Log("patch_ok")
            ELSE UNCHANGED payload /\ Log("patch_fail")
         /\ IF Reinforces(call.is_implemented)
            THEN pc' = "feedback_related" /\ UNCHANGED ret
            ELSE Return(ok)
    /\ UNCHANGED <<vector, nodes, edges, call, todo, pending, batch, embedded,
                   rejected, nodeFailed, pre, fin, props>>

\* related_recs = await self.graph_store.get_related_recommendations(id): the
\* rows, or [] after an exception inside the graph store
feedback_related ==
    /\ pc = "feedback_related"
    /\ \E ok \in BOOLEAN :
         IF ok
         THEN /\ todo' \in get_related_recommendations(edges, call.id, RelatedLimit)
              /\ Log("related_ok")
         ELSE todo' = <<>> /\ Log("related_fail")
    /\ IF todo' = <<>>
       THEN FeedbackResult
       ELSE pc' = "feedback_reinforce" /\ UNCHANGED ret
    /\ UNCHANGED <<vector, nodes, edges, call, pending, batch, embedded,
                   rejected, nodeFailed, pre, fin, payload, props>>

\* one turn of "for rec in related_recs": update_relationship_weight(id,
\* rec["id"], 0.1), its result not looked at
feedback_reinforce ==
    /\ pc = "feedback_reinforce"
    /\ \E ok \in BOOLEAN :
         IF ok
         THEN /\ edges' = update_relationship_weight(edges, call.id,
                                                     Head(todo).id, Reinforcement)
              /\ Log("weight_ok")
         ELSE UNCHANGED edges /\ Log("weight_fail")
    /\ todo' = Tail(todo)
    /\ IF todo' = <<>>
       THEN FeedbackResult
       ELSE UNCHANGED <<pc, ret>>
    /\ UNCHANGED <<vector, nodes, call, pending, batch, embedded, rejected,
                   nodeFailed, pre, fin, payload, props>>

NextFeedback ==
    \/ \E id \in Ids, imp \in BOOLEAN, fb \in Feedbacks :
         update_recommendation_feedback(id, imp, fb)
    \/ feedback_patch
    \/ feedback_related
    \/ feedback_reinforce

SpecFeedback == InitFeedback /\ [][NextFeedback]_vars

-----------------------------------------------------------------------------
(* Feedback given again and again on the same graph.                        *)

\* most edges of a graph feedback is repeated on
MaxReinforceEdges == 2

\* no further call is followed once an edge has this weight, in tenths
MaxWeight == 11

\* at most one edge from a node to another
Simple(g) == \A a \in g, b \in g : (a.src = b.src /\ a.tgt = b.tgt) => a = b

ReinforceGraphs ==
    {SetToBag(g) :
        g \in {x \in SubsetsUpTo({k \in EdgeKeys(ClusterIds, {"similar"}, FeedbackWeights) :
                                     k.src # k.tgt},
                                 MaxReinforceEdges) : Simple(x)}}

InitReinforce ==
    /\ vector = ClusterIds
    /\ nodes = [i \in ClusterIds |-> 1]
    /\ edges \in ReinforceGraphs
    /\ pc = "idle"
    /\ call = NoCall
    /\ todo = <<>>
    /\ pending = <<>>
    /\ batch = <<>>
    /\ embedded = 0
    /\ rejected = {}
    /\ nodeFailed = {}
    /\ hist = <<>>
    /\ ret = None
    /\ pre = NoStores
    /\ fin = <<>>
    /\ payload = [i \in ClusterIds |-> NoFeedback]
    /\ props = [i \in ClusterIds |-> NoProps]

BelowMaxWeight == \A k \in DOMAIN edges : k.weight < MaxWeight

NextReinforce ==
    \/ \E id \in Ids : update_recommendation_feedback(id, TRUE, None)
    \/ feedback_patch
    \/ feedback_related
    \/ feedback_reinforce
    \/ BelowMaxWeight /\ respond

SpecReinforce == InitReinforce /\ [][NextReinforce]_vars

-----------------------------------------------------------------------------
(* RecommendationService.get_recommendations, one step for each awaited     *)
(* store call.                                                              *)

\* most edges of a graph recommendations are asked on
MaxRecommendEdges == 4

\* get_related_recommendations(result["id"], limit=3)
RelatedPerSeed == 3

RecommendWeights == {6, 8}
RecommendLimits == {1, 2}
Categories == {"strength", "cardio"}

RecommendGraphs ==
    {SetToBag(g) :
        g \in SubsetsUpTo({k \in EdgeKeys(ClusterIds, {"similar"}, RecommendWeights) :
                              k.src # k.tgt},
                          MaxRecommendEdges)}

Descending(hits) ==
    \A i \in DOMAIN hits, j \in DOMAIN hits : i < j => hits[i].score >= hits[j].score

\* the hit lists client.search may give for limit n: points of the index, none
\* twice, the best first
SearchResults(v, n) ==
    {h \in UNION {[1..m -> [id : v, score : {4, 9}]] : m \in 0..Min(n, Cardinality(v))} :
        DistinctIds(h) /\ Descending(h)}

\* a MATCH ... RETURN query: the graph after it is the graph before it
AfterRead_reinforced(e, id) ==
    LET Up(k) == IF k.src = id THEN [k EXCEPT !.weight = @ + 1] ELSE k
    IN  [x \in {Up(k) : k \in DOMAIN e} |-> e[CHOOSE k \in DOMAIN e : Up(k) = x]]
AfterRead(e, id) == e

\* the arguments of vector_store.search_recommendations: filter_params =
\* {"category": category} and limit = limit * 2
SearchRequest(category, limit) ==
    [filter_params |-> [category |-> category], limit |-> limit * 2]

\* "for result in vector_results[:limit]": the hits that are expanded
Seeds_all(vector_results, limit) == vector_results
Seeds(vector_results, limit) == Truncate(vector_results, limit)

\* "combined_results = self._combine_rankings(...)" and
\* "return combined_results[:limit]"
RecommendResult(vector_results, graph_results) ==
    /\ fin' = [stage |-> "returned", vector_results |-> vector_results,
               request |-> SearchRequest(call.category, call.limit),
               graph_results |-> graph_results, limit |-> call.limit,
               combined |-> combine_rankings(vector_results, graph_results),
               out |-> Truncate(combine_rankings(vector_results, graph_results),
                                call.limit)]
    /\ Return(fin'.out)

InitRecommend ==
    /\ vector = ClusterIds
    /\ nodes = [i \in ClusterIds |-> 1]
    /\ edges \in RecommendGraphs
    /\ pc = "idle"
    /\ call = NoCall
    /\ todo = <<>>
    /\ pending = <<>>
    /\ batch = <<>>
    /\ embedded = 0
    /\ rejected = {}
    /\ nodeFailed = {}
    /\ hist = <<>>
    /\ ret = None
    /\ pre = NoStores
    /\ fin = [stage |-> "none"]
    /\ payload = [i \in ClusterIds |-> NoFeedback]
    /\ props = [i \in ClusterIds |-> NoProps]

get_recommendations(category, limit) ==
    /\ Idle
    /\ call' = [op |-> "recommend", id |-> None, category |-> category,
                limit |-> limit]
    /\ pre' = [vector |-> vector, nodes |-> nodes, edges |-> edges]
    /\ hist' = <<>>
    /\ pc' = "recommend_search"
    /\ UNCHANGED <<vector, nodes, edges, todo, pending, batch, embedded,
                   rejected, nodeFailed, ret, fin, payload, props>>

\* vector_store.search_recommendations(..., limit=limit * 2): the hits, or []
\* after an exception inside the vector store; vector_results[:limit] are the
\* seeds of the graph expansion
recommend_search ==
    /\ pc = "recommend_search"
    /\ \E ok \in BOOLEAN :
         IF ok
         THEN /\ pending' \in SearchResults(vector,
                     SearchRequest(call.category, call.limit).limit)
              /\ Log("search_ok")
         ELSE pending' = <<>> /\ Log("search_fail")
    /\ todo' = Seeds(pending', call.limit)
    /\ IF todo' = <<>>
       THEN RecommendResult(pending', <<>>)
       ELSE /\ pc' = "recommend_expand"
            /\ fin' = [stage |-> "searched",
                       request |-> SearchRequest(call.category, call.limit)]
            /\ UNCHANGED ret
    /\ batch' = <<>>
    /\ UNCHANGED <<vector, nodes, edges, call, embedded, rejected, nodeFailed,
                   pre, payload, props>>

\* one turn of "for result in vector_results[:limit]":
\* graph_results.extend(get_related_recommendations(result["id"], limit=3))
recommend_expand ==
    /\ pc = "recommend_expand"
    /\ \E ok \in BOOLEAN :
         IF ok
         THEN /\ \E related \in get_related_recommendations(edges, Head(todo).id,
                                                            RelatedPerSeed) :
                    batch' = batch \o related
              /\ edges' = AfterRead(edges, Head(todo).id)
              /\ Log("related_ok")
         ELSE UNCHANGED <<batch, edges>> /\ Log("related_fail")
    /\ todo' = Tail(todo)
    /\ IF todo' = <<>>
       THEN RecommendResult(pending, batch')
       ELSE UNCHANGED <<pc, ret, fin>>
    /\ UNCHANGED <<vector, nodes, call, pending, embedded, rejected, nodeFailed,
                   pre, payload, props>>

NextRecommend ==
    \/ \E c \in Categories, l \in RecommendLimits : get_recommendations(c, l)
    \/ recommend_search
    \/ recommend_expand
    \/ \E id \in ClusterIds, mw \in MinWeights :
         get_recommendation_cluster(id, 7, mw)
    \/ cluster_lookup

SpecRecommend == InitRecommend /\ [][NextRecommend]_vars

-----------------------------------------------------------------------------
(* IngestionService.update_recommendation of an update that names no        *)
(* relationships, with the fields of the point and of the node followed: a  *)
(* field has the value "old" from the ingest, "new" from the update.        *)

UpdateFields == UpdateKeys \cup {"tags"}

\* the payload and the node properties an ingest leaves
IngestedPayload ==
    [title |-> "old", category |-> "old", tags |-> "old", created_at |-> "old"]
IngestedProps == [title |-> "old", category |-> "old"]
NoPayload == [title |-> None, category |-> None, tags |-> None, created_at |-> None]

\* the keys of metadata_updates and of graph_updates
metadata_updates(keys) == keys \cap {"title", "category", "tags"}
graph_updates(keys) == keys \cap {"title", "category"}

\* update_metadata(id, metadata_updates): set_payload writes the named fields
\* over those of the point, if there is one
patch_fields(p, v, id, fields) ==
    IF id \in v
    THEN [p EXCEPT ![id] = [f \in DOMAIN p[id] |->
                               IF f \in fields THEN "new" ELSE p[id][f]]]
    ELSE p

\* store_recommendation(id, embedding, metadata_updates): the upserted point
\* has metadata_updates as its whole payload
replace_fields(p, id, fields) ==
    [p EXCEPT ![id] = [f \in DOMAIN p[id] |-> IF f \in fields THEN "new" ELSE None]]

\* each id ingested or absent from both stores
InitUpdate ==
    /\ \E present \in SUBSET Ids :
         /\ vector = present
         /\ nodes = [i \in Ids |-> IF i \in present THEN 1 ELSE 0]
         /\ payload = [i \in Ids |-> IF i \in present THEN IngestedPayload
                                     ELSE NoPayload]
         /\ props = [i \in Ids |-> IF i \in present THEN IngestedProps ELSE NoProps]
    /\ edges = EmptyBag
    /\ pc = "idle"
    /\ call = NoCall
    /\ todo = <<>>
    /\ pending = <<>>
    /\ batch = <<>>
    /\ embedded = 0
    /\ rejected = {}
    /\ nodeFailed = {}
    /\ hist = <<>>
    /\ ret = None
    /\ pre = NoStores
    /\ fin = <<>>

update_fields(id, keys, regenerate_embedding) ==
    /\ Idle
    /\ call' = [op |-> "update", id |-> id, keys |-> keys,
                regenerate_embedding |-> regenerate_embedding]
    /\ pre' = [vector |-> vector, nodes |-> nodes, edges |-> edges,
               payload |-> payload, props |-> props]
    /\ hist' = <<>>
    /\ pc' = IF Regenerates(keys, regenerate_embedding)
             THEN "fields_embed" ELSE "fields_patch"
    /\ UNCHANGED <<vector, nodes, edges, todo, pending, batch, embedded,
                   rejected, nodeFailed, ret, fin, payload, props>>

\* embedding_service.generate_embedding: re-raises, the handler returns False
fields_embed ==
    /\ pc = "fields_embed"
    /\ \E ok \in BOOLEAN :
         IF ok
         THEN Log("embed_ok") /\ pc' = "fields_upsert" /\ UNCHANGED ret
         ELSE Log("embed_fail") /\ Return(FALSE)
    /\ UNCHANGED <<vector, nodes, edges, call, todo, pending, batch, embedded,
                   rejected, nodeFailed, pre, fin, payload, props>>

\* vector_store.store_recommendation, its result not looked at; graph_updates
\* is handed to no call, so the node keeps its properties; "return True"
fields_upsert ==
    /\ pc = "fields_upsert"
    /\ \E ok \in BOOLEAN :
         IF ok
         THEN /\ vector' = store_recommendation(vector, call.id)
              /\ payload' = replace_fields(payload, call.id,
                                           metadata_updates(call.keys))
              /\ Log("upsert_ok")
         ELSE UNCHANGED <<vector, payload>> /\ Log("upsert_fail")
    /\ Return(TRUE)
    /\ UNCHANGED <<nodes, edges, call, todo, pending, batch, embedded,
                   rejected, nodeFailed, pre, fin, props>>

\* vector_store.update_metadata, its result not looked at; graph_updates is
\* handed to no call; "return True"
fields_patch ==
    /\ pc = "fields_patch"
    /\ \E ok \in BOOLEAN :
         IF ok
         THEN /\ payload' = patch_fields(payload, vector, call.id,
                                         metadata_updates(call.keys))
              /\ Log("patch_ok")
         ELSE UNCHANGED payload /\ Log("patch_fail")
    /\ Return(TRUE)
    /\ UNCHANGED <<vector, nodes, edges, call, todo, pending, batch, embedded,
                   rejected, nodeFailed, pre, fin, props>>

NextUpdate ==
    \/ \E id \in Ids, keys \in SUBSET UpdateFields, re \in BOOLEAN :
         update_fields(id, keys, re)
    \/ fields_embed
    \/ fields_upsert
    \/ fields_patch

SpecUpdate == InitUpdate /\ [][NextUpdate]_vars

-----------------------------------------------------------------------------
(* EmbeddingService.generate_batch_embeddings: batch holds the texts,       *)
(* embedded the offset i of the loop, pending the list embeddings and hist  *)
(* the requests made of the provider.                                       *)

\* longest list of texts given to generate_batch_embeddings
MaxTexts == 4

Texts == {"a", "b"}
TextLists == UNION {[1..n -> Texts] : n \in 0..MaxTexts}
ChunkSizes == 1..(BatchSize + 1)

\* the embedding the provider gives for a text
Embedding(text) == [of |-> text]

\* texts[i:i + batch_size]
Chunk_short(texts, i, batch_size) ==
    SubSeq(texts, i + 1, Min(i + batch_size - 1, Len(texts)))
Chunk(texts, i, batch_size) ==
    SubSeq(texts, i + 1, Min(i + batch_size, Len(texts)))

\* [data['embedding'] for data in response['data']]: the provider answers
\* with one embedding for each input, in the order of the inputs
BatchEmbeddings(chunk) == [k \in DOMAIN chunk |-> Embedding(chunk[k])]

\* the call up to the first request; range(0, 0, batch_size) is empty
generate_batch_embeddings(texts, batch_size) ==
    /\ Idle
    /\ call' = [op |-> "embed_batch", id |-> None, batch_size |-> batch_size]
    /\ batch' = texts
    /\ embedded' = 0
    /\ pending' = <<>>
    /\ hist' = <<>>
    /\ IF texts = <<>> THEN Return(<<>>) ELSE pc' = "embed_chunk" /\ UNCHANGED ret
    /\ UNCHANGED <<vector, nodes, edges, todo, rejected, nodeFailed, pre, fin,
                   payload, props>>

\* one turn of "for i in range(0, len(texts), batch_size)": the request for
\* the chunk, then embeddings.extend(...) or the exception raised again
embed_chunk ==
    /\ pc = "embed_chunk"
    /\ \E ok \in BOOLEAN :
         LET chunk == Chunk(batch, embedded, call.batch_size) IN
         /\ hist' = Append(hist, [chunk |-> chunk, ok |-> ok])
         /\ IF ok
            THEN /\ pending' = pending \o BatchEmbeddings(chunk)
                 /\ embedded' = embedded + call.batch_size
                 /\ IF embedded' >= Len(batch)
                    THEN Return(pending')
                    ELSE UNCHANGED <<pc, ret>>
            ELSE pc' = "raised" /\ UNCHANGED <<pending, embedded, ret>>
    /\ UNCHANGED <<vector, nodes, edges, call, todo, batch, rejected,
                   nodeFailed, pre, fin, payload, props>>

NextEmbed ==
    \/ \E texts \in TextLists, bs \in ChunkSizes :
         generate_batch_embeddings(texts, bs)
    \/ embed_chunk

SpecEmbed == Init /\ [][NextEmbed]_vars

-----------------------------------------------------------------------------
(* Two IngestionService.ingest_recommendation calls in flight at once on    *)
(* the one service object, each a task of its own: pc, call, hist and ret   *)
(* hold one value for each task, and the calls the tasks await are          *)
(* interleaved in every order.  Neither call names relationships; the dict  *)
(* a call is given has an "id" or has none (id None).                       *)

Tasks == {1, 2}

InitTasks ==
    /\ vector = {}
    /\ nodes = [i \in Ids |-> 0]
    /\ edges = EmptyBag
    /\ pc = [t \in Tasks |-> "idle"]
    /\ call = [t \in Tasks |-> NoCall]
    /\ todo = <<>>
    /\ pending = <<>>
    /\ batch = <<>>
    /\ embedded = 0
    /\ rejected = {}
    /\ nodeFailed = {}
    /\ hist = [t \in Tasks |-> <<>>]
    /\ ret = [t \in Tasks |-> None]
    /\ pre = NoStores
    /\ fin = <<>>
    /\ payload = [i \in Ids |-> NoFeedback]
    /\ props = [i \in Ids |-> NoProps]

\* task t goes to step s, having logged the outcome ev of the call it awaited
TaskStep(t, ev, s) ==
    /\ hist' = [hist EXCEPT ![t] = Append(@, ev)]
    /\ pc' = [pc EXCEPT ![t] = s]

\* task t ends its call with value r
TaskReturn(t, r) == ret' = [ret EXCEPT ![t] = r]

TaskReturned(t) == pc[t] = "returned"

\* ingest_recommendation({id, ...}, None), or ingest_recommendation of a dict
\* with no "id", is started as task t
task_ingest(t, id) ==
    /\ pc[t] = "idle"
    /\ call[t].op = "none"
    /\ call' = [call EXCEPT ![t] = [op |-> "ingest", id |-> id]]
    /\ pc' = [pc EXCEPT ![t] = "ingest_embed"]
    /\ UNCHANGED <<vector, nodes, edges, todo, pending, batch, embedded,
                   rejected, nodeFailed, hist, ret, pre, fin, payload, props>>

\* embedding_service.generate_embedding; a failure makes the handler
\* return None, and so does recommendation["id"] of a dict with no "id"
task_embed(t) ==
    /\ pc[t] = "ingest_embed"
    /\ \E ok \in BOOLEAN :
         IF ok /\ call[t].id # None
         THEN TaskStep(t, "embed_ok", "ingest_upsert") /\ UNCHANGED ret
         ELSE /\ TaskStep(t, IF ok THEN "embed_ok" ELSE "embed_fail", "returned")
              /\ TaskReturn(t, None)
    /\ UNCHANGED <<vector, nodes, edges, call, todo, pending, batch, embedded,
                   rejected, nodeFailed, pre, fin, payload, props>>

\* vector_store.store_recommendation; "if not vector_success: raise"
task_upsert(t) ==
    /\ pc[t] = "ingest_upsert"
    /\ \E ok \in BOOLEAN :
         IF ok
         THEN /\ vector' = store_recommendation(vector, call[t].id)
              /\ TaskStep(t, "upsert_ok", "ingest_node")
              /\ UNCHANGED ret
         ELSE /\ UNCHANGED vector
              /\ TaskStep(t, "upsert_fail", "returned")
              /\ TaskReturn(t, None)
    /\ UNCHANGED <<nodes, edges, call, todo, pending, batch, embedded,
                   rejected, nodeFailed, pre, fin, payload, props>>

\* graph_store.create_recommendation_node; "if not graph_success": roll
\* back, else (no relationships) return the id
task_node(t) ==
    /\ pc[t] = "ingest_node"
    /\ \E ok \in {b \in BOOLEAN : b => NodeRoom(call[t].id)} :
         IF ok
         THEN /\ nodes' = create_recommendation_node(nodes, call[t].id)
              /\ TaskStep(t, "node_ok", "returned")
              /\ TaskReturn(t, call[t].id)
         ELSE /\ UNCHANGED nodes
              /\ TaskStep(t, "node_fail", "ingest_rollback")
              /\ UNCHANGED ret
    /\ UNCHANGED <<vector, edges, call, todo, pending, batch, embedded,
                   rejected, nodeFailed, pre, fin, payload, props>>

\* "Rollback vector store": vector_store.delete_recommendation(id) removes
\* the point with that id, whichever call stored it; then raise
task_rollback(t) ==
    /\ pc[t] = "ingest_rollback"
    /\ \E ok \in BOOLEAN :
         IF ok
         THEN /\ vector' = vector_delete_recommendation(vector, call[t].id)
              /\ TaskStep(t, "rollback_ok", "returned")
         ELSE /\ UNCHANGED vector
              /\ TaskStep(t, "rollback_fail", "returned")
    /\ TaskReturn(t, None)
    /\ UNCHANGED <<nodes, edges, call, todo, pending, batch, embedded,
                   rejected, nodeFailed, pre, fin, payload, props>>

NextTasks ==
    \/ \E t \in Tasks, id \in Ids \cup {None} : task_ingest(t, id)
    \/ \E t \in Tasks : task_embed(t)
    \/ \E t \in Tasks : task_upsert(t)
    \/ \E t \in Tasks : task_node(t)
    \/ \E t \in Tasks : task_rollback(t)

SpecTasks == InitTasks /\ [][NextTasks]_vars

-----------------------------------------------------------------------------
(* Two update_recommendation_feedback calls in flight at once, each a task  *)
(* of its own, on a graph with at most one edge from a node to another.     *)
(* hist holds for each task the calls it awaited as records.                *)

NoRecord == [op |-> "none", id |-> None, is_implemented |-> FALSE]

InitFeedbackTasks ==
    /\ vector = ClusterIds
    /\ nodes = [i \in ClusterIds |-> 1]
    /\ edges \in ReinforceGraphs
    /\ pc = [t \in Tasks |-> "idle"]
    /\ call = [t \in Tasks |-> NoRecord]
    /\ todo = [t \in Tasks |-> <<>>]
    /\ pending = <<>>
    /\ batch = <<>>
    /\ embedded = 0
    /\ rejected = {}
    /\ nodeFailed = {}
    /\ hist = [t \in Tasks |-> <<>>]
    /\ ret = [t \in Tasks |-> None]
    /\ pre = [vector |-> ClusterIds, nodes |-> [i \in ClusterIds |-> 1],
              edges |-> edges]
    /\ fin = <<>>
    /\ payload = [i \in ClusterIds |-> NoFeedback]
    /\ props = [i \in ClusterIds |-> NoProps]

\* the record of an awaited call: which call, its outcome, and for a weight
\* update the neighbour it was issued for
Awaited(c, ok, target) == [call |-> c, ok |-> ok, target |-> target]

\* "return vector_success" in task t
TaskFeedbackResult(t) ==
    TaskReturn(t, \E i \in DOMAIN hist'[t] :
                     hist'[t][i].call = "patch" /\ hist'[t][i].ok)

\* graph_store.update_relationship_weight(id, rec["id"], 0.1): the addition
\* is made by the graph store on the weight the relationship has then, not
\* on the weight the service read in rec
reinforce_stale(e, source_id, rec, weight_change) ==
    LET Set(k) == IF k.src = source_id /\ k.tgt = rec.id
                  THEN [k EXCEPT !.weight = rec.weight + weight_change]
                  ELSE k
    IN  [x \in {Set(k) : k \in DOMAIN e} |->
            e[CHOOSE k \in DOMAIN e : Set(k) = x]]
reinforce(e, source_id, rec, weight_change) ==
    update_relationship_weight(e, source_id, rec.id, weight_change)

\* update_recommendation_feedback(id, user, is_implemented) is started as
\* task t
task_feedback(t, id, is_implemented) ==
    /\ pc[t] = "idle"
    /\ call[t] = NoRecord
    /\ call' = [call EXCEPT ![t] = [op |-> "feedback", id |-> id,
                                     is_implemented |-> is_implemented]]
    /\ pc' = [pc EXCEPT ![t] = "feedback_patch"]
    /\ UNCHANGED <<vector, nodes, edges, todo, pending, batch, embedded,
                   rejected, nodeFailed, hist, ret, pre, fin, payload, props>>

\* vector_success = await self.vector_store.update_metadata(...)
task_patch(t) ==
    /\ pc[t] = "feedback_patch"
    /\ \E ok \in BOOLEAN :
         /\ IF ok
            THEN payload' = set_payload(payload, vector, call[t].id,
                                        FeedbackFields(None))
            ELSE UNCHANGED payload
         /\ IF Reinforces(call[t].is_implemented)
            THEN /\ TaskStep(t, Awaited("patch", ok, None), "feedback_related")
                 /\ UNCHANGED ret
            ELSE /\ TaskStep(t, Awaited("patch", ok, None), "returned")
                 /\ TaskReturn(t, ok)
    /\ UNCHANGED <<vector, nodes, edges, call, todo, pending, batch, embedded,
                   rejected, nodeFailed, pre, fin, props>>

\* related_recs = await self.graph_store.get_related_recommendations(id)
task_related(t) ==
    /\ pc[t] = "feedback_related"
    /\ \E ok \in BOOLEAN :
         /\ IF ok
            THEN \E rows \in get_related_recommendations(edges, call[t].id,
                                                         RelatedLimit) :
                    todo' = [todo EXCEPT ![t] = rows]
            ELSE todo' = [todo EXCEPT ![t] = <<>>]
         /\ IF todo'[t] = <<>>
            THEN /\ TaskStep(t, Awaited("related", ok, None), "returned")
                 /\ TaskFeedbackResult(t)
            ELSE /\ TaskStep(t, Awaited("related", ok, None), "feedback_reinforce")
                 /\ UNCHANGED ret
    /\ UNCHANGED <<vector, nodes, edges, call, pending, batch, embedded,
                   rejected, nodeFailed, pre, fin, payload, props>>

\* one turn of "for rec in related_recs" in task t
task_reinforce(t) ==
    /\ pc[t] = "feedback_reinforce"
    /\ todo' = [todo EXCEPT ![t] = Tail(@)]
    /\ \E ok \in BOOLEAN :
         /\ IF ok
            THEN edges' = reinforce(edges, call[t].id, Head(todo[t]), Reinforcement)
            ELSE UNCHANGED edges
         /\ IF todo'[t] = <<>>
            THEN /\ TaskStep(t, Awaited("weight", ok, Head(todo[t]).id), "returned")
                 /\ TaskFeedbackResult(t)
            ELSE /\ TaskStep(t, Awaited("weight", ok, Head(todo[t]).id),
                             "feedback_reinforce")
                 /\ UNCHANGED ret
    /\ UNCHANGED <<vector, nodes, call, pending, batch, embedded, rejected,
                   nodeFailed, pre, fin, payload, props>>

NextFeedbackTasks ==
    \/ \E t \in Tasks, id \in Ids, imp \in BOOLEAN : task_feedback(t, id, imp)
    \/ \E t \in Tasks : task_patch(t)
    \/ \E t \in Tasks : task_related(t)
    \/ \E t \in Tasks : task_reinforce(t)

SpecFeedbackTasks == InitFeedbackTasks /\ [][NextFeedbackTasks]_vars

-----------------------------------------------------------------------------
(* Properties *)

StoresAsBefore == vector = pre.vector /\ nodes = pre.nodes /\ edges = pre.edges
GraphAsBefore == nodes = pre.nodes /\ edges = pre.edges
InBoth(id) == id \in vector /\ nodes[id] >= 1
Occurs(id, ids) == \E i \in DOMAIN ids : ids[i] = id

\* C1: when the graph node creation of an ingest fails, the call returns a
\* failure and the vector index holds no entry for the id once it has
\* returned, whatever the compensating vector delete did.
C1_FailedNodeLeavesNoVectorEntry ==
    (Returned("ingest") /\ Did("node_fail"))
        => (ret = None /\ call.id \notin vector)

\* C2: an id that ingest returns as a success is, when the call returns, in
\* the vector index and has a node in the graph; the id returned is the
\* item's id.
C2_ReturnedIdInBothStores ==
    (Returned("ingest") /\ ret # None)
        => (ret = call.id /\ InBoth(call.id))

C2_Witness ==
    /\ Returned("ingest")
    /\ ret # None
    /\ ret = call.id
    /\ call.id \notin pre.vector
    /\ pre.nodes[call.id] = 0

\* C3: between calls (no call in flight) no id is in exactly one of the two
\* stores.
C3_NoOneSidedRecord ==
    pc \in {"idle", "returned"}
        => \A id \in Ids : (id \in vector) <=> (nodes[id] >= 1)

\* C4: when the embedding call of an ingest fails, the call returns a
\* failure, both stores are as they were before the call and no store call
\* (upsert, node creation, edge creation) was issued.
C4_EmbedFailurePersistsNothing ==
    (Returned("ingest") /\ Did("embed_fail"))
        => (ret = None /\ StoresAsBefore /\ hist = <<"embed_fail">>)

C4_Witness ==
    /\ Returned("ingest")
    /\ Did("embed_fail")
    /\ todo # <<>>
    /\ call.id \notin vector

\* C5: when the vector upsert of an ingest fails, the call returns a failure,
\* no graph node creation and no edge creation was issued, and both stores
\* are as they were before the call.
C5_UpsertFailurePersistsNothing ==
    (Returned("ingest") /\ Did("upsert_fail"))
        => (ret = None /\ StoresAsBefore /\ hist = <<"embed_ok", "upsert_fail">>)

C5_Witness ==
    /\ Returned("ingest")
    /\ Did("upsert_fail")
    /\ todo # <<>>
    /\ call.id \notin vector

\* C6: a failed edge creation of an ingest is skipped: the step changes
\* neither the vector entry, the node nor any edge, the loop goes on to the
\* remaining relationships, and the call returns the id with the node and
\* the vector entry in place.
C6_EdgeFailureSkipped ==
    /\ [][(pc = "ingest_rels" /\ hist' = Append(hist, "edge_fail"))
            => /\ vector' = vector /\ nodes' = nodes /\ edges' = edges
               /\ todo' = Tail(todo)
               /\ IF todo' = <<>>
                  THEN pc' = "returned" /\ ret' = call.id
                  ELSE pc' = "ingest_rels"]_vars
    /\ []((Returned("ingest") /\ Did("edge_fail"))
            => /\ ret = call.id
               /\ todo = <<>>
               /\ call.id \in vector
               /\ nodes[call.id] = pre.nodes[call.id] + 1)

\* the first edge was created, the second failed, the id was returned
C6_Witness ==
    /\ Returned("ingest")
    /\ hist = <<"embed_ok", "upsert_ok", "node_ok", "edge_ok", "edge_fail">>
    /\ BagCardinality(edges) = BagCardinality(pre.edges) + 1
    /\ ret = call.id

\* the second edge was attempted and created after the first one failed
C6_WitnessLater ==
    /\ Returned("ingest")
    /\ hist = <<"embed_ok", "upsert_ok", "node_ok", "edge_fail", "edge_ok">>
    /\ BagCardinality(edges) = BagCardinality(pre.edges) + 1

\* positions of the batch whose node creation succeeded, in input order
RECURSIVE Committed(_)
Committed(k) ==
    IF k > Len(batch) THEN <<>>
    ELSE (IF k \in nodeFailed THEN <<>> ELSE <<batch[k]>>) \o Committed(k + 1)

NodesCreatedFor(id) ==
    Cardinality({k \in DOMAIN batch : batch[k] = id /\ k \notin nodeFailed})

\* C7 as stated: once the batch embeddings exist, an item of ingest_many
\* whose own vector write was accepted and whose own node creation did not
\* fail is written to both stores and returned, whatever happened to the
\* other items; and only ids written to both stores are returned.
C7_ItemsIndependent ==
    (Returned("ingest_many") /\ embedded = Len(batch))
        => /\ \A k \in DOMAIN batch :
                (k \notin rejected /\ k \notin nodeFailed)
                    => (InBoth(batch[k]) /\ Occurs(batch[k], ret))
           /\ \A i \in DOMAIN ret : InBoth(ret[i])

\* C7 amended: the vector write is one batch upsert for all items: if it
\* fails, no id is returned and the graph is not written; if it succeeds,
\* every item is in the vector index, the node creations succeed or fail
\* item by item, and the ids returned are exactly those of the items whose
\* node creation succeeded, in input order, each in both stores.
C7_BatchThenPerItemNodes ==
    (Returned("ingest_many") /\ embedded = Len(batch))
        => IF rejected # {}
           THEN ret = <<>> /\ StoresAsBefore /\ nodeFailed = {}
           ELSE /\ \A k \in DOMAIN batch : batch[k] \in vector
                /\ ret = Committed(1)
                /\ \A id \in Ids : nodes[id] = pre.nodes[id] + NodesCreatedFor(id)
                /\ \A i \in DOMAIN ret : InBoth(ret[i])

\* the node creation of the first item failed, that of a later one succeeded
C7_Witness ==
    /\ Returned("ingest_many")
    /\ rejected = {}
    /\ 1 \in nodeFailed
    /\ ret # <<>>
    /\ \E k \in DOMAIN batch : k \notin nodeFailed /\ batch[k] # batch[1]

\* C8: when the embedding request of a chunk fails, ingest_many returns no
\* id and has issued no vector or graph write, also for the items of chunks
\* embedded before.
C8_ChunkFailureAbortsBatch ==
    (Returned("ingest_many") /\ Did("embed_fail"))
        => /\ ret = <<>>
           /\ StoresAsBefore
           /\ \A i \in DOMAIN hist : hist[i] \in {"embed_ok", "embed_fail"}

\* the first chunk was embedded, the request of the second one failed
C8_Witness ==
    /\ Returned("ingest_many")
    /\ hist = <<"embed_ok", "embed_fail">>
    /\ embedded = BatchSize
    /\ Len(batch) > BatchSize

\* no edge of the graph has id as source or target
NoEdgeAt(id) == \A e \in DOMAIN edges : e.src # id /\ e.tgt # id

\* C9: delete reports success exactly when the vector deletion and the graph
\* deletion both succeeded; both deletions are always attempted, the one
\* that succeeds takes effect and the one that fails changes nothing.
C9_DeleteNeedsBoth ==
    Returned("delete")
        => /\ ret = (Did("vdel_ok") /\ Did("gdel_ok"))
           /\ Len(hist) = 2
           /\ hist[1] \in {"vdel_ok", "vdel_fail"}
           /\ hist[2] \in {"gdel_ok", "gdel_fail"}
           /\ IF Did("vdel_ok") THEN vector = pre.vector \ {call.id}
                                ELSE vector = pre.vector
           /\ IF Did("gdel_ok")
              THEN /\ nodes = [pre.nodes EXCEPT ![call.id] = 0]
                   /\ NoEdgeAt(call.id)
              ELSE GraphAsBefore

\* the vector deletion failed, the node is gone all the same, failure reported
C9_Witness ==
    /\ Returned("delete")
    /\ hist = <<"vdel_fail", "gdel_ok">>
    /\ call.id \in vector
    /\ pre.nodes[call.id] >= 1
    /\ nodes[call.id] = 0
    /\ ret = FALSE

ScoresOf(hits, id) == {hits[i].score : i \in {j \in DOMAIN hits : hits[j].id = id}}
WeightsOf(hits, id) == {hits[i].weight : i \in {j \in DOMAIN hits : hits[j].id = id}}

\* the legs are those of the hits: the score of the vector hit, the weight
\* of a graph neighbour, 0 for a leg that is missing
LegsFromHits(r) ==
    /\ r.vector_score \in
         (IF ScoresOf(fin.vector_results, r.id) = {} THEN {0}
          ELSE ScoresOf(fin.vector_results, r.id))
    /\ r.graph_score \in
         (IF WeightsOf(fin.graph_results, r.id) = {} THEN {0}
          ELSE WeightsOf(fin.graph_results, r.id))

ExampleHits ==
    /\ fin.vector_results = <<[id |-> "A", score |-> 9], [id |-> "B", score |-> 4]>>
    /\ fin.graph_results = <<[id |-> "B", weight |-> 8], [id |-> "C", weight |-> 6]>>

FinalScores(results) ==
    [k \in DOMAIN results |-> <<results[k].id, results[k].final_score>>]

\* C10: every fused result has final_score = 0.7 * vector_score + 0.3 *
\* graph_score with the legs taken from the hits (0 for a missing leg), and
\* the hits {A: 0.9, B: 0.4}, {B: 0.8, C: 0.6} give A 0.63, B 0.52, C 0.18.
C10_FusedScore ==
    fin.stage # "hits"
        => /\ \A k \in DOMAIN fin.combined :
                /\ LegsFromHits(fin.combined[k])
                /\ fin.combined[k].final_score =
                     7 * fin.combined[k].vector_score
                     + 3 * fin.combined[k].graph_score
           /\ ExampleHits =>
                FinalScores(fin.combined) = <<<<"A", 63>>, <<"B", 52>>, <<"C", 18>>>>
           /\ fin.stage = "returned" =>
                \A k \in DOMAIN fin.out : fin.out[k] = fin.combined[k]

C10_Witness ==
    /\ fin.stage = "returned"
    /\ ExampleHits
    /\ fin.limit = 3
    /\ FinalScores(fin.out) = <<<<"A", 63>>, <<"B", 52>>, <<"C", 18>>>>

\* the order of the ids, as Python orders the strings
IdRank(id) == CASE id = "A" -> 1 [] id = "B" -> 2 [] id = "C" -> 3

\* C11: the list returned by recommend is sorted by final_score descending,
\* and two results with equal final_score are in ascending id order.
C11_SortedWithIdTieBreak ==
    fin.stage = "returned"
        => \A i, j \in DOMAIN fin.out :
             i < j => \/ fin.out[i].final_score > fin.out[j].final_score
                      \/ /\ fin.out[i].final_score = fin.out[j].final_score
                         /\ IdRank(fin.out[i].id) < IdRank(fin.out[j].id)

\* C12: recommend returns at most limit results, the first limit entries of
\* the fused list, and no entry left out has a higher final_score than an
\* entry returned.
C12_TopLimit ==
    fin.stage = "returned"
        => /\ Len(fin.out) <= fin.limit
           /\ Len(fin.out) = Min(fin.limit, Len(fin.combined))
           /\ \A k \in DOMAIN fin.out : fin.out[k] = fin.combined[k]
           /\ \A k \in DOMAIN fin.combined, i \in DOMAIN fin.out :
                k > Len(fin.out)
                    => fin.combined[k].final_score <= fin.out[i].final_score

\* more entries were fused than asked for, and one left out scores lower
C12_Witness ==
    /\ fin.stage = "returned"
    /\ Len(fin.combined) > fin.limit
    /\ Len(fin.out) = fin.limit
    /\ \E k \in DOMAIN fin.combined :
         k > fin.limit /\ fin.combined[k].final_score < fin.out[fin.limit].final_score

\* the edge with the given ends and weight
Edge(s, t, w) == [src |-> s, tgt |-> t, type |-> "similar", weight |-> w]

\* the chains of one or two outbound edges of the graph before the call that
\* lead from the root of the call to node n, as the weights along them
Chains(n) ==
    LET E == DOMAIN pre.edges
    IN  {<<a.weight>> : a \in {x \in E : x.src = call.id /\ x.tgt = n}}
        \cup
        (IF call.op = "graph_cluster" /\ call.max_depth < 2 THEN {}
         ELSE {<<q[1].weight, q[2].weight>> :
                 q \in {x \in E \X E : /\ x[1].src = call.id
                                       /\ x[1].tgt = x[2].src
                                       /\ x[2].tgt = n
                                       /\ x[1] # x[2]}})

Strong(chain) == \A i \in DOMAIN chain : chain[i] >= call.min_weight

\* the product of the weights, in hundredths
ChainScore(chain) ==
    IF Len(chain) = 1 THEN 10 * chain[1] ELSE chain[1] * chain[2]

GraphClusterAnswered == Returned("graph_cluster") /\ Did("cluster_ok")

\* C13: the cluster query admits a path only if every edge on it has weight
\* >= min_weight; a node all of whose paths from the root contain an edge
\* below min_weight gets no row and no cluster score.
C13_WeakEdgeExcludesPath ==
    GraphClusterAnswered
        => /\ \A k \in DOMAIN ret :
                \E c \in Chains(ret[k].id) : Strong(c)
           /\ \A n \in ClusterIds :
                (\A c \in Chains(n) : ~Strong(c))
                    => \A k \in DOMAIN ret : ret[k].id # n

\* weights [0.9, 0.4] with min_weight 0.5: the node two hops away is left out
C13_Witness ==
    /\ GraphClusterAnswered
    /\ call.id = "r1" /\ call.min_weight = 5 /\ call.max_depth = 2
    /\ pre.edges = SetToBag({Edge("r1", "r2", 9), Edge("r2", "r3", 4)})
    /\ ret = <<[id |-> "r2", cluster_score |-> 90]>>

\* C14: the cluster_score of a row is the product of the edge weights along
\* its path, and every admissible path has its row.
C14_ScoreIsProduct ==
    GraphClusterAnswered
        => \A n \in ClusterIds :
             {ret[k].cluster_score : k \in {j \in DOMAIN ret : ret[j].id = n}}
               = {ChainScore(c) : c \in {x \in Chains(n) : Strong(x)}}

\* weights [0.9, 0.8], min_weight 0.5, max_depth 2: the score is 0.72
C14_Witness ==
    /\ GraphClusterAnswered
    /\ call.id = "r1" /\ call.min_weight = 5 /\ call.max_depth = 2
    /\ pre.edges = SetToBag({Edge("r1", "r2", 9), Edge("r2", "r3", 8)})
    /\ ret = <<[id |-> "r2", cluster_score |-> 90],
               [id |-> "r3", cluster_score |-> 72]>>

\* C15: a node reached by several admissible paths appears exactly once in
\* the cluster output, with the largest cluster_score of those paths.
C15_OnceWithMaximum ==
    GraphClusterAnswered
        => \A n \in ClusterIds :
             LET strong == {c \in Chains(n) : Strong(c)}
                 rows == {k \in DOMAIN ret : ret[k].id = n}
             IN  strong # {}
                   => /\ Cardinality(rows) = 1
                      /\ \A k \in rows, c \in strong :
                           ret[k].cluster_score >= ChainScore(c)

\* C16: the fusion of a cluster takes the cluster_score of a member as its
\* graph leg: final_score = 0.7 * vector_score + 0.3 * cluster_score.
C16_ClusterScoreIsGraphLeg ==
    fin.stage = "combined"
        => \A k \in DOMAIN fin.combined :
             \A j \in DOMAIN fin.graph_results :
                fin.graph_results[j].id = fin.combined[k].id
                    => \E i \in DOMAIN fin.graph_results :
                         /\ fin.graph_results[i].id = fin.combined[k].id
                         /\ 10 * fin.combined[k].final_score
                              = 70 * fin.combined[k].vector_score
                                + 3 * fin.graph_results[i].cluster_score

\* C17: the cluster of a root held by both stores has every node that an
\* admissible path of one or two outbound edges reaches from the root, and
\* from the graph no other node.
C17_ClusterIsReachableSet ==
    (Returned("cluster") /\ Did("lookup_hit")
       /\ call.id \in vector /\ nodes[call.id] > 0)
        => /\ \A n \in ClusterIds :
                (\E c \in Chains(n) : Strong(c))
                    => \E k \in DOMAIN ret : ret[k].id = n
           /\ \A k \in DOMAIN ret :
                ret[k].id \in vector \/ \E c \in Chains(ret[k].id) : Strong(c)

\* no call of the feedback in flight has failed
AllCallsOk ==
    \A i \in DOMAIN hist : hist[i] \in {"patch_ok", "related_ok", "weight_ok"}

Outbound(k) == k.src = call.id

\* the edges of e, each outbound edge of the call's id one tenth heavier
ReinforcedOnce(e) ==
    LET Up(k) == IF Outbound(k) THEN [k EXCEPT !.weight = @ + 1] ELSE k
    IN  [x \in {Up(k) : k \in DOMAIN e} |-> e[CHOOSE k \in DOMAIN e : Up(k) = x]]

\* the number of edges of e from s to t with type ty
EdgesBetween(e, s, t, ty) ==
    BagCardinality([k \in {x \in DOMAIN e : x.src = s /\ x.tgt = t /\ x.type = ty}
                      |-> e[k]])

\* C18: record_feedback(id, true) increases the weight of every direct
\* outbound edge of id by 0.1 exactly once, also when edges of different
\* types lead to the same neighbour.
C18_EachOutboundEdgeOnce ==
    (Returned("feedback") /\ call.is_implemented /\ AllCallsOk)
        => edges = ReinforcedOnce(pre.edges)

\* C19: record_feedback(id, true) leaves every edge that is not a direct
\* outbound edge of id as it was, and creates or deletes no node and no edge.
C19_OnlyOutboundEdgesChange ==
    (call.op = "feedback" /\ call.is_implemented)
        => /\ nodes = pre.nodes
           /\ \A k \in DOMAIN edges \cup DOMAIN pre.edges :
                ~Outbound(k) => CopiesIn(k, edges) = CopiesIn(k, pre.edges)
           /\ \A s \in ClusterIds, t \in ClusterIds, ty \in FeedbackTypes :
                EdgesBetween(edges, s, t, ty) = EdgesBetween(pre.edges, s, t, ty)

\* r1 -> r2 was reinforced; r2 -> r1 and r2 -> r3 are there as before
C19_Witness ==
    /\ Returned("feedback") /\ call.is_implemented /\ call.id = "r1"
    /\ pre.edges = SetToBag({[src |-> "r1", tgt |-> "r2", type |-> "similar", weight |-> 5],
                             [src |-> "r2", tgt |-> "r1", type |-> "similar", weight |-> 5],
                             [src |-> "r2", tgt |-> "r3", type |-> "next", weight |-> 9]})
    /\ edges = SetToBag({[src |-> "r1", tgt |-> "r2", type |-> "similar", weight |-> 6],
                         [src |-> "r2", tgt |-> "r1", type |-> "similar", weight |-> 5],
                         [src |-> "r2", tgt |-> "r3", type |-> "next", weight |-> 9]})

\* C20: record_feedback(id, false) issues no graph call and changes nothing
\* in the graph; the feedback fields are still written to the point of id.
C20_NotImplementedPatchesOnly ==
    (call.op = "feedback" /\ ~call.is_implemented)
        => /\ GraphAsBefore
           /\ \A i \in DOMAIN hist : hist[i] \in {"patch_ok", "patch_fail"}
           /\ pc = "returned"
                => /\ Len(hist) = 1
                   /\ ret = Did("patch_ok")
                   /\ (Did("patch_ok") /\ call.id \in vector)
                        => payload[call.id] =
                             [last_feedback |-> "now", implementation_count |-> 1,
                              user_feedback |-> call.feedback]

\* feedback without implementation on a recommendation that has outbound
\* edges: the fields are in the payload, the edges as they were
C20_Witness ==
    /\ Returned("feedback") /\ ~call.is_implemented
    /\ \E k \in DOMAIN pre.edges : Outbound(k)
    /\ call.feedback = "done"
    /\ pre.vector = vector /\ call.id \in vector
    /\ payload[call.id].last_feedback = "now"
    /\ payload[call.id].user_feedback = "done"
    /\ ret = TRUE

\* C21: the status record_feedback returns is the outcome of the write of the
\* vector metadata alone; failed edge-weight updates do not change it.
C21_StatusIsMetadataWrite ==
    Returned("feedback")
        => /\ Did("patch_ok") \/ Did("patch_fail")
           /\ ret = Did("patch_ok")

\* the metadata was written, every weight update failed, success is reported
C21_Witness ==
    /\ Returned("feedback")
    /\ Did("patch_ok") /\ Did("weight_fail") /\ ~Did("weight_ok")
    /\ Len(hist) >= 4
    /\ edges = pre.edges
    /\ ret = TRUE

\* C22: every edge weight stays within [0, 1] whatever the operations;
\* reinforcement is clamped at 1.0 however often feedback is given.
C22_WeightsWithinUnit ==
    \A k \in DOMAIN edges : k.weight >= 0 /\ k.weight <= 10

\* C23: an ingest of an id the graph has at most one node of leaves exactly
\* one node with that id; a second ingest updates the node in place.
C23_SecondIngestKeepsOneNode ==
    (Returned("ingest") /\ ret # None /\ ret = call.id /\ pre.nodes[call.id] <= 1)
        => nodes[call.id] = 1

\* C24: a relationship given to ingest without a weight is stored with weight
\* 1.0 and a weight outside [0, 1] is clamped, so that every edge ingest
\* creates has a weight in [0, 1].
C24_IngestedWeightsWithinUnit ==
    call.op = "ingest"
        => \A k \in DOMAIN edges :
             CopiesIn(k, edges) > CopiesIn(k, pre.edges)
                => k.weight >= 0 /\ k.weight <= 10

\* C25: recommend and cluster are read-only: whatever the outcome of their
\* store calls, the vector index, its payloads, the nodes and the edges with
\* their weights are as they were before the call.
C25_ReadOnly ==
    call.op \in {"recommend", "cluster"}
        => /\ StoresAsBefore
           /\ \A i \in ClusterIds : payload[i] = NoFeedback

\* a recommend call that searched, expanded a seed and returned a result
\* with a graph leg
C25_Witness ==
    /\ Returned("recommend")
    /\ Did("search_ok") /\ Did("related_ok")
    /\ \E k \in DOMAIN ret : ret[k].graph_score > 0
    /\ edges # EmptyBag

\* C28: when the similarity search of recommend fails, the caller gets a
\* failure and not the empty list a search without hits gives.
C28_SearchFailureIsNotEmptyResult ==
    ~(Returned("recommend") /\ Did("search_fail") /\ ret = <<>>)

\* C26: an update that names title or category writes the new value to the
\* vector metadata and to the graph node of the id; when no store call fails
\* both carry it after the call.
C26_UpdateReachesBothStores ==
    (Returned("update") /\ ret = TRUE
       /\ call.id \in pre.vector /\ pre.nodes[call.id] > 0
       /\ \A i \in DOMAIN hist : hist[i] \in {"embed_ok", "upsert_ok", "patch_ok"})
        => \A f \in graph_updates(call.keys) :
             payload[call.id][f] = "new" /\ props[call.id][f] = "new"

\* C27: after a delete that reported success the vector index has no entry
\* for the id, the graph no node with the id and no edge from or to it.
C27_DeletedEverywhere ==
    (Returned("delete") /\ ret = TRUE)
        => /\ call.id \notin vector
           /\ nodes[call.id] = 0
           /\ \A e \in DOMAIN edges : e.src # call.id /\ e.tgt # call.id

\* the deleted id was in both stores and another node had an edge to it
C27_Witness ==
    /\ Returned("delete") /\ ret = TRUE
    /\ call.id \in pre.vector
    /\ pre.nodes[call.id] > 0
    /\ \E e \in DOMAIN pre.edges : e.tgt = call.id /\ e.src # call.id
    /\ edges = EmptyBag

\* the positions of id in the graph rows given to the fusion
RowsOf(id) == {j \in DOMAIN fin.graph_results : fin.graph_results[j].id = id}
LastRowOf(id) == CHOOSE j \in RowsOf(id) : \A k \in RowsOf(id) : k <= j

\* C29: in the fusion an id that is a vector hit keeps its vector_score and
\* gets the edge weight as graph_score; of several rows of one id the last
\* one gives the graph_score, never their sum; a neighbour that is no vector
\* hit has vector_score 0.
C29_LastNeighbourRowWins ==
    fin.stage # "hits"
        => \A k \in DOMAIN fin.combined :
             LET c == fin.combined[k]
                 hit == {i \in DOMAIN fin.vector_results :
                            fin.vector_results[i].id = c.id}
             IN  /\ \A i \in hit : c.vector_score = fin.vector_results[i].score
                 /\ hit = {} => c.vector_score = 0
                 /\ RowsOf(c.id) = {} => c.graph_score = 0
                 /\ RowsOf(c.id) # {}
                      => c.graph_score = fin.graph_results[LastRowOf(c.id)].weight
                 /\ hit # {} \/ RowsOf(c.id) # {}

\* B is a vector hit and twice a neighbour, with weights 0.8 and then 0.6
C29_Witness ==
    /\ fin.stage = "combined"
    /\ fin.vector_results = <<[id |-> "B", score |-> 9]>>
    /\ fin.graph_results = <<[id |-> "B", weight |-> 8], [id |-> "B", weight |-> 6]>>
    /\ Len(fin.combined) = 1
    /\ fin.combined[1].vector_score = 9
    /\ fin.combined[1].graph_score = 6

\* C30: batch embedding requests consecutive chunks of at most the batch
\* size in input order; after a failed request no chunk is requested and no
\* list is returned; when all succeed the i-th embedding returned is that of
\* the i-th text.
C30_ChunksInOrder ==
    call.op = "embed_batch"
        => LET bs == call.batch_size
               n == Len(hist)
           IN  /\ \A k \in 1..n :
                    /\ hist[k].chunk = [j \in 1..(Min(k * bs, Len(batch)) - (k - 1) * bs)
                                          |-> batch[(k - 1) * bs + j]]
                    /\ Len(hist[k].chunk) >= 1 /\ Len(hist[k].chunk) <= bs
                    /\ k < n => hist[k].ok
               /\ pc = "embed_chunk" => \A k \in 1..n : hist[k].ok
               /\ pc = "raised" => ~hist[n].ok /\ ret = None
               /\ pc = "returned"
                    => /\ \A k \in 1..n : hist[k].ok
                       /\ Len(ret) = Len(batch)
                       /\ \A j \in DOMAIN batch : ret[j].of = batch[j]

\* three texts in chunks of two: two requests, the second for one text
C30_Witness ==
    /\ Returned("embed_batch")
    /\ call.batch_size = 2
    /\ batch = <<"a", "b", "a">>
    /\ Len(hist) = 2
    /\ hist[2].chunk = <<"a">>
    /\ ret = <<[of |-> "a"], [of |-> "b"], [of |-> "a"]>>

\* the external calls of an ingest follow the saga: the embedding first, the
\* upsert after a successful embedding, the node creation after a
\* successful upsert, edge creations after a successful node creation, the
\* compensating delete after a failed node creation
SagaOrder(h) ==
    \A i \in DOMAIN h :
        /\ h[i] \in {"embed_ok", "embed_fail"} => i = 1
        /\ h[i] \in {"upsert_ok", "upsert_fail"} => i = 2 /\ h[1] = "embed_ok"
        /\ h[i] \in {"node_ok", "node_fail"} => i = 3 /\ h[2] = "upsert_ok"
        /\ h[i] \in {"edge_ok", "edge_fail"} => i >= 4 /\ h[3] = "node_ok"
        /\ h[i] \in {"rollback_ok", "rollback_fail"} => i = 4 /\ h[3] = "node_fail"

\* C31: in every execution of ingest the external calls are issued in the
\* order embed, vector upsert, node creation, edge creations, each only after
\* the preceding one succeeded; no node is created after a failed embed or
\* upsert, no edge before the node creation succeeded, and the compensating
\* vector delete is issued only after a failed node creation.
C31_SagaOrder ==
    /\ [](call.op = "ingest" => SagaOrder(hist))
    /\ [][(call.op = "ingest" /\ call' = call)
            => /\ call.id \in vector' \ vector => hist = <<"embed_ok">>
               /\ nodes' # nodes => hist = <<"embed_ok", "upsert_ok">>
               /\ edges' # edges => Len(hist) >= 3 /\ hist[3] = "node_ok"
               /\ call.id \in vector \ vector'
                    => hist = <<"embed_ok", "upsert_ok", "node_fail">>]_vars

\* all four kinds of call were issued and succeeded, the edge last
C31_Witness ==
    /\ Returned("ingest")
    /\ hist = <<"embed_ok", "upsert_ok", "node_ok", "edge_ok">>
    /\ call.id \in vector \ pre.vector
    /\ BagCardinality(edges) = BagCardinality(pre.edges) + 1

\* the rows the expansion of one seed added to graph_results
NewRows == SubSeq(batch', Len(batch) + 1, Len(batch'))
OutboundOf(id) == {x \in Relationships(edges) : x.edge.src = id}

\* C32: recommend asks the vector index for 2 * limit candidates with the
\* category as filter, expands only the limit best candidates, takes for
\* each at most 3 direct outbound neighbours in descending weight order, and
\* so gives at most 3 * limit graph rows to the fusion.
C32_BoundedExpansion ==
    /\ []((call.op = "recommend" /\ fin.stage \in {"searched", "returned"})
            => /\ fin.request = [filter_params |-> [category |-> call.category],
                                 limit |-> 2 * call.limit]
               /\ Len(pending) <= 2 * call.limit
               /\ Len(hist) - 1 <= call.limit
               /\ Len(batch) <= 3 * call.limit
               /\ fin.stage = "returned"
                    => /\ fin.vector_results = pending
                       /\ fin.graph_results = batch
                       /\ Len(hist) - 1 = Min(call.limit, Len(pending)))
    /\ [][(pc = "recommend_expand" /\ hist' # hist)
            => LET k == Len(hist)
               IN  /\ k <= call.limit
                   /\ \A j \in DOMAIN pending :
                        j > call.limit => pending[j].score <= pending[k].score
                   /\ Len(NewRows) <= 3
                   /\ batch' = batch \o NewRows
                   /\ \A i \in DOMAIN NewRows :
                        /\ \E x \in OutboundOf(pending[k].id) :
                             NewRows[i] = RelatedRow(x)
                        /\ i > 1 => NewRows[i - 1].weight >= NewRows[i].weight
                   /\ hist'[Len(hist')] = "related_ok"
                        => /\ Len(NewRows) = Min(3, Cardinality(OutboundOf(pending[k].id)))
                           /\ \A x \in OutboundOf(pending[k].id) :
                                \/ \E i \in DOMAIN NewRows : NewRows[i] = RelatedRow(x)
                                \/ \A i \in DOMAIN NewRows :
                                     NewRows[i].weight >= x.edge.weight]_vars

\* limit 1: two candidates came back, the better one has four outbound
\* edges, three of them reached the fusion
C32_Witness ==
    /\ Returned("recommend")
    /\ call.limit = 1
    /\ Len(pending) = 2
    /\ pending[1].score > pending[2].score
    /\ Cardinality(OutboundOf(pending[1].id)) = 4
    /\ Len(fin.graph_results) = 3
    /\ hist = <<"search_ok", "related_ok">>

\* C33: of two concurrent ingests of one id, one returning the id and the
\* other failing at the node creation, the id is in the vector index and in
\* the graph once both have returned, in every interleaving: the
\* compensating delete of the failing call leaves the other call's vector
\* entry in place.
C33_CompensationSparesTheOtherCall ==
    \A s \in Tasks, f \in Tasks :
        (/\ TaskReturned(s) /\ TaskReturned(f)
         /\ call[s].id = call[f].id
         /\ ret[s] # None
         /\ ret[s] = call[s].id
         /\ \E i \in DOMAIN hist[f] : hist[f][i] = "node_fail")
            => InBoth(call[s].id)

\* the weight updates of task t that succeeded, in the order issued
WeightUpdates(t) == SelectSeq(hist[t], LAMBDA h : h.call = "weight" /\ h.ok)

\* the graph e after the weight updates ups, all from source_id
RECURSIVE Applied(_, _, _)
Applied(e, source_id, ups) ==
    IF ups = <<>> THEN e
    ELSE Applied(update_relationship_weight(e, source_id, Head(ups).target,
                                            Reinforcement),
                 source_id, Tail(ups))

TaskAllOk(t) == \A i \in DOMAIN hist[t] : hist[t][i].ok

\* C34: of two concurrent record_feedback(id, true) calls no weight update
\* is lost, in every interleaving: once both have returned the graph is the
\* graph before the calls with every update of either call applied, and when
\* no call failed every outbound edge of id carries both reinforcements.
C34_NoLostUpdate ==
    (\A t \in Tasks : TaskReturned(t))
        => /\ edges = Applied(Applied(pre.edges, call[1].id, WeightUpdates(1)),
                              call[2].id, WeightUpdates(2))
           /\ (/\ call[1].id = call[2].id
               /\ \A t \in Tasks : call[t].is_implemented /\ TaskAllOk(t))
                => /\ BagCardinality(edges) = BagCardinality(pre.edges)
                   /\ \A k \in DOMAIN pre.edges :
                        IF k.src = call[1].id
                        THEN BagIn([k EXCEPT !.weight = @ + 2 * Reinforcement], edges)
                        ELSE BagIn(k, edges)

\* both calls reinforced each of the two outbound edges of the id, and each
\* edge ends two reinforcements above its weight before the calls
C34_Witness ==
    /\ \A t \in Tasks : TaskReturned(t) /\ TaskAllOk(t) /\ call[t].is_implemented
    /\ call[1].id = call[2].id
    /\ Cardinality({k \in DOMAIN pre.edges : k.src = call[1].id}) = 2
    /\ Len(WeightUpdates(1)) = 2 /\ Len(WeightUpdates(2)) = 2
    /\ \A k \in DOMAIN pre.edges :
         BagIn([k EXCEPT !.weight = @ + 2 * Reinforcement], edges)

\* C35: create_relationship reports success only if an edge from the source
\* to the target of the given type is in the graph after the call; with the
\* source node or the target node missing it creates no edge and reports no
\* success.
C35_SuccessMeansEdge ==
    (Returned("relate") /\ ret = TRUE)
        => \E k \in DOMAIN edges :
             k.src = call.id /\ k.tgt = call.target_id /\ k.type = call.type

\* the edges a step added to the graph
AddedEdges == {k \in DOMAIN edges' : CopiesIn(k, edges') > CopiesIn(k, edges)}

\* C36: a step that creates edges (in ingest, ingest_many, update or
\* create_relationship) creates no node and only edges between ids that have
\* a node; with the cascading node deletion, every edge of the graph
\* connects two existing nodes after any sequence of operations.
C36_EdgesJoinExistingNodes ==
    /\ [](\A k \in DOMAIN edges : nodes[k.src] >= 1 /\ nodes[k.tgt] >= 1)
    /\ [][AddedEdges # {}
            => /\ nodes' = nodes
               /\ \A k \in AddedEdges : nodes[k.src] >= 1 /\ nodes[k.tgt] >= 1]_vars

\* create_relationship ran towards an id that has no node: no edge, no node
C36_Witness ==
    /\ Returned("relate")
    /\ hist = <<"edge_ok">>
    /\ nodes[call.id] >= 1
    /\ nodes[call.target_id] = 0
    /\ GraphAsBefore

\* C37: update creates no record: an id that is in neither store before the
\* call is in neither store after it, whatever fields the update names and
\* whether or not the embedding is regenerated.
C37_UpdateCreatesNothing ==
    (Returned("update") /\ call.id \notin pre.vector /\ pre.nodes[call.id] = 0)
        => (call.id \notin vector /\ nodes[call.id] = 0)

\* C38: update leaves every field of the vector metadata that the update
\* does not name as it was, on the patch path and on the re-embedding path.
C38_UnnamedFieldsKept ==
    (Returned("update") /\ call.id \in pre.vector)
        => \A f \in DOMAIN payload[call.id] :
             f \notin call.keys => payload[call.id][f] = pre.payload[call.id][f]

=============================================================================
